---- MODULE Spec2Model ----
(***************************************************************************)
(* A model of iced_data_navigator: the axis Viewport of the scrollbars     *)
(* (src/src/core/scrollbar.rs), the scroll area (src/src/core/             *)
(* scroll_area.rs), the hex viewer widget with its Content                 *)
(* (src/src/hex/viewer.rs), and the application of the hex_showcase        *)
(* example around it (src/examples/hex_showcase/src/component.rs).         *)
(*                                                                         *)
(* f32 pixel quantities are modelled as integer multiples of one common    *)
(* sub-pixel unit, so that floor(a / b) is the integer division a \div b.  *)
(***************************************************************************)
EXTENDS Integers, Sequences, FiniteSets, TLC

VARIABLES
    axis,        \* scrollbar.rs Viewport: [offset, size, step_size, content_viewport_size]
    axis_prev,   \* the Viewport the last axis operation was applied to
    axis_op,     \* the last axis operation
    axis_res,    \* the i64 the last axis operation returned
    ix_a,        \* viewer.rs Index: first argument of HexViewer::selection
    ix_b,        \* second argument of HexViewer::selection
    ix_cursor,   \* third argument of HexViewer::selection (current_cursor)
    ix_sel,      \* Option<Selection> returned for (ix_a, ix_b)
    ix_rev,      \* Option<Selection> returned for (ix_b, ix_a)
    ix_pc,       \* how many of the two calls were made
    source,      \* the Source behind a Content: [size, chunk]
    content,     \* viewer.rs Content: [source_size, data, viewport, id]
    c_hist,      \* the last two operations on the Content, its state before the last
    c_items,     \* what the last Content::iter or draw yielded
    cfg,         \* what surrounds the viewer: font metrics, space, window, inputs
    app,         \* component.rs HexComponent: [viewport, columns, cursor, selection,
                 \* horizontal_navigation, vertical_navigation]
    viewer,      \* the HexViewer the last HexComponent::view built, as updated since
    tree,        \* viewer.rs State, kept in the widget tree
    env,         \* the pointer, the primary button, the shift key, the events so far
    seen,        \* the last event, its key, and the data cell the pointer was on
    out,         \* the messages Widget::update published that wait for the application,
                 \* or those of the last update once it has handled them
    CONTENT_COUNTER, \* viewer.rs CONTENT_COUNTER: the AtomicU64 the ids are taken from
    contents,    \* the Contents each thread has constructed besides `content`
    bar,         \* scrollbar.rs HorizontalScrollbar or VerticalScrollbar, updated by itself
    bar_state,   \* scrollbar.rs State of that scrollbar
    bar_bounds,  \* the bounds the scrollbar is updated with
    bar_seen,    \* the last update of the scrollbar: its inputs and its result
    timer,       \* util.rs Timer of the held track: Option of [target, interval]
    now          \* Instant::now() in milliseconds

axisVars == <<axis, axis_prev, axis_op, axis_res>>
ixVars == <<ix_a, ix_b, ix_cursor, ix_sel, ix_rev, ix_pc>>
contentVars == <<source, content, c_hist, c_items>>
viewerVars == <<cfg, app, viewer, tree, env, seen, out>>
idVars == <<CONTENT_COUNTER, contents>>
barVars == <<bar, bar_state, bar_bounds, bar_seen, timer, now>>

vars == <<axis, axis_prev, axis_op, axis_res,
          ix_a, ix_b, ix_cursor, ix_sel, ix_rev, ix_pc,
          source, content, c_hist, c_items,
          cfg, app, viewer, tree, env, seen, out,
          CONTENT_COUNTER, contents,
          bar, bar_state, bar_bounds, bar_seen, timer, now>>

Min(a, b) == IF a < b THEN a ELSE b
Max(a, b) == IF a > b THEN a ELSE b

\* Body(value), with `value` evaluated once however often Body uses it: a
\* LET definition is evaluated anew at each of its uses
With(value, Body(_)) == CHOOSE r \in { Body(v) : v \in {value} } : TRUE

(***************************************************************************)
(* core/scrollbar.rs: Viewport (one scroll axis)                           *)
(***************************************************************************)

\* Bounds of the axis model.
MaxAxisSize == 4
MaxAxisStep == 2
MaxAxisContent == 4
MaxAxisOver == 2
MaxAxisSteps == 3

\* Viewport::new
Viewport_new(offset, size, step_size, content_viewport_size) ==
    [offset |-> offset, size |-> size, step_size |-> step_size,
     content_viewport_size |-> content_viewport_size]

\* Viewport::viewport_steps_floor
viewport_steps_floor(v) == v.content_viewport_size \div v.step_size

\* Viewport::viewport_steps_ceil
viewport_steps_ceil(v) ==
    (v.content_viewport_size + v.step_size - 1) \div v.step_size

virtual_max_offset_swapped(v) == Max(viewport_steps_floor(v) - v.size, 0)
virtual_max_offset_ceil(v) == Max(v.size - viewport_steps_ceil(v), 0)
\* Viewport::virtual_max_offset
virtual_max_offset(v) == Max(v.size - viewport_steps_floor(v), 0)

fitted_scroll_offset_nofloor(v) == Min(v.offset, virtual_max_offset(v))
\* Viewport::fitted_scroll_offset
fitted_scroll_offset(v) == Max(Min(v.offset, virtual_max_offset(v)), 0)

\* Viewport::add_steps
add_steps(v, steps) == [v EXCEPT !.offset = v.offset + steps]

\* Viewport::subtract_steps
subtract_steps(v, steps) == [v EXCEPT !.offset = v.offset - steps]

\* impl ops::Add<i64> for Viewport
Viewport_add(v, steps) == Max(Min(v.offset + steps, virtual_max_offset(v)), 0)

\* impl ops::Sub<i64> for Viewport
Viewport_sub(v, steps) == Viewport_add(v, -steps)

\* The viewport of the scenario: 1000 steps of one pixel, 100 pixels of content.
ScenarioAxis == Viewport_new(950, 1000, 1, 100)

AxisOffsets == (0 - MaxAxisOver) .. (MaxAxisSize + MaxAxisOver)

AxisStates ==
    { Viewport_new(o, s, st, c) :
        o \in AxisOffsets, s \in 0 .. MaxAxisSize,
        st \in 1 .. MaxAxisStep, c \in 0 .. MaxAxisContent }
    \cup { ScenarioAxis }

(***************************************************************************)
(* hex/viewer.rs: Side, Index, Selection and HexViewer::selection          *)
(***************************************************************************)

\* Bound of the offsets of the two indices.
MaxIndexOffset == 3

\* enum Side { Left = 0, None = 1, Right = 2 } with #[derive(PartialOrd)]
Sides == {"Left", "None", "Right"}
Side_discriminant(side) ==
    CASE side = "Left" -> 0
      [] side = "None" -> 1
      [] side = "Right" -> 2

\* Index::new
Index_new(offset, side) == [offset |-> offset, side |-> side]

Index_lt_offset_only(a, b) == a.offset < b.offset
\* impl PartialOrd for Index: a < b
Index_lt(a, b) ==
    IF a.offset < b.offset THEN TRUE
    ELSE IF a.offset > b.offset THEN FALSE
    ELSE Side_discriminant(a.side) < Side_discriminant(b.side)

\* Option<Selection>
NoSelection == [tag |-> "None"]
\* Selection::new
Selection_new(offset, length, last) ==
    [tag |-> "Some", offset |-> offset, length |-> length, last |-> last]

\* bool as i64
BoolAsI64(b) == IF b THEN 1 ELSE 0

selection_right_exclusive(a, b, current_cursor) ==
    LET left == IF Index_lt(a, b) THEN a ELSE b
        right == IF Index_lt(a, b) THEN b ELSE a
        start == left.offset + BoolAsI64(left.side = "Right")
        length == right.offset - left.offset - 1
                  + BoolAsI64(left.side = "Left" \/ left.side = "None")
                  + BoolAsI64(right.side = "Right")
    IN  IF length > 0 THEN Selection_new(start, length, current_cursor)
        ELSE NoSelection
selection_allow_empty(a, b, current_cursor) ==
    LET left == IF Index_lt(a, b) THEN a ELSE b
        right == IF Index_lt(a, b) THEN b ELSE a
        start == left.offset + BoolAsI64(left.side = "Right")
        length == right.offset - left.offset - 1
                  + BoolAsI64(left.side = "Left" \/ left.side = "None")
                  + BoolAsI64(right.side = "Right" \/ right.side = "None")
    IN  IF length >= 0 THEN Selection_new(start, length, current_cursor)
        ELSE NoSelection
\* HexViewer::selection. The offsets are never negative and length > 0 where
\* it is cast, so the `as u64` casts keep the values.
selection(a, b, current_cursor) ==
    LET left == IF Index_lt(a, b) THEN a ELSE b
        right == IF Index_lt(a, b) THEN b ELSE a
        start == left.offset + BoolAsI64(left.side = "Right")
        length == right.offset - left.offset - 1
                  + BoolAsI64(left.side = "Left" \/ left.side = "None")
                  + BoolAsI64(right.side = "Right" \/ right.side = "None")
    IN  IF length > 0 THEN Selection_new(start, length, current_cursor)
        ELSE NoSelection

Indices == { Index_new(o, s) : o \in 0 .. MaxIndexOffset, s \in Sides }


(***************************************************************************)
(* hex/viewer.rs: Viewport, Source, Content                                *)
(***************************************************************************)

\* Bounds of the content model.
MaxVirtualColumns == 2
MaxRowCountCeil == 2
MaxSourceSize == 3

\* impl Default for Viewport (viewer.rs)
HexViewport_default ==
    [x |-> 0, y |-> 0, columns |-> 0, rows |-> 0, percentage_x |-> 0,
     virtual_columns |-> 0]

\* Viewport::offset
HexViewport_offset(v) == v.virtual_columns * v.y + v.x

\* Viewport::size
HexViewport_size(v) == v.columns * v.rows

\* HexViewer::create_viewport, with self.virtual_columns,
\* self.content.source_size, layout.viewport_column_count_ceil() and
\* layout.viewport_row_count_ceil() as parameters
create_viewport(virtual_columns, source_size, column_count_ceil, row_count_ceil, x, y, shift_x) ==
    LET columns == Max(Min(virtual_columns - x, column_count_ceil + 1), 1)
        rows == Max(Min((source_size + virtual_columns - 1) \div virtual_columns - y,
                        row_count_ceil), 0)
    IN  [x |-> x, y |-> y, columns |-> columns, rows |-> rows,
         percentage_x |-> shift_x, virtual_columns |-> virtual_columns]

\* The byte a source holds at an offset.
SourceByte(offset) == (offset + 1) % 256

\* Source::size
Source_size(src) == src.size

\* Source::read(offset, buf) for a buffer of `len` bytes: the bytes written to
\* the front of the buffer. A source may fill less than the buffer (it
\* reads at most src.chunk bytes in one call).
Source_read(src, offset, len) ==
    LET n == Max(Min(Min(len, src.chunk), src.size - offset), 0)
    IN  [i \in 1 .. n |-> SourceByte(offset + i - 1)]

\* Vec::resize(new_len, 0)
VecResize(data, new_len) ==
    [i \in 1 .. new_len |-> IF i <= Len(data) THEN data[i] ELSE 0]

\* buf[dst_offset .. dst_offset + Len(bytes)] = bytes
WriteSlice(data, dst_offset, bytes) ==
    [i \in 1 .. Len(data) |->
        IF i > dst_offset /\ i <= dst_offset + Len(bytes)
        THEN bytes[i - dst_offset] ELSE data[i]]

\* A fetch_add whose store is lost, as with a load and a store that are not
\* one atomic operation
fetch_add_lost(counter, n) == [old |-> counter, new |-> counter]

\* AtomicU64::fetch_add(n, SeqCst), one atomic step: gives the value before
\* and the value stored.  The wrap at 2^64 is beyond every count followed.
fetch_add(counter, n) == [old |-> counter, new |-> counter + n]

\* Content::new for the content with identity `id`
Content_new(src, id) ==
    [source_size |-> Source_size(src), data |-> <<>>,
     viewport |-> HexViewport_default, id |-> id]

\* A row loop that reads every row into the front of the buffer
RECURSIVE update_rows_at_front(_, _, _, _, _)
update_rows_at_front(data, src, source_size, viewport, r) ==
    IF r >= viewport.rows THEN data
    ELSE
        LET source_offset == (viewport.y + r) * viewport.virtual_columns + viewport.x
            dst_size == Max(Min(viewport.columns, source_size - source_offset), 0)
        IN  IF dst_size = 0 THEN data
            ELSE update_rows_at_front(
                    WriteSlice(data, 0, Source_read(src, source_offset, dst_size)),
                    src, source_size, viewport, r + 1)

\* The loop `for r in 0..viewport.rows` of Content::update, from row r on.
RECURSIVE update_rows(_, _, _, _, _)
update_rows(data, src, source_size, viewport, r) ==
    IF r >= viewport.rows THEN data
    ELSE
        LET source_offset == (viewport.y + r) * viewport.virtual_columns + viewport.x
            dst_offset == r * viewport.columns
            dst_size == Max(Min(viewport.columns, source_size - source_offset), 0)
        IN  IF dst_size = 0 THEN data
            ELSE update_rows(
                    WriteSlice(data, dst_offset,
                               Source_read(src, source_offset, dst_size)),
                    src, source_size, viewport, r + 1)

\* Content::update that reads the source size before it looks at the viewport
Content_update_size_first(c, src, viewport) ==
    IF viewport.virtual_columns = 0
    THEN [c EXCEPT !.viewport = viewport, !.source_size = Source_size(src),
                   !.data = VecResize(c.data, HexViewport_size(viewport))]
    ELSE [c EXCEPT !.viewport = viewport,
                   !.source_size = Source_size(src),
                   !.data = update_rows(
                                VecResize(c.data, HexViewport_size(viewport)),
                                src, Source_size(src), viewport, 0)]

Content_update_keep_data(c, src, viewport) ==
    IF viewport.virtual_columns = 0
    THEN [c EXCEPT !.viewport = viewport]
    ELSE [c EXCEPT !.viewport = viewport,
                   !.source_size = Source_size(src),
                   !.data = update_rows(c.data \o
                                [i \in 1 .. HexViewport_size(viewport) |-> 0],
                                src, Source_size(src), viewport, 0)]
\* Content::update
Content_update(c, src, viewport) ==
    IF viewport.virtual_columns = 0
    THEN [c EXCEPT !.viewport = viewport]
    ELSE [c EXCEPT !.viewport = viewport,
                   !.source_size = Source_size(src),
                   !.data = update_rows(
                                VecResize(c.data, HexViewport_size(viewport)),
                                src, Source_size(src), viewport, 0)]

\* ContentItem::new
ContentItem_new(offset, viewport_offset, column, row, byte) ==
    [offset |-> offset, viewport_offset |-> viewport_offset,
     column |-> column, row |-> row, value |-> byte]

\* The item Content::iter maps the i-th byte (from 0) of the buffer to.
content_item(c, i) ==
    LET row == i \div c.viewport.columns
        col == i % c.viewport.columns
        offset == (c.viewport.y + row) * c.viewport.virtual_columns
                  + c.viewport.x + col
    IN  ContentItem_new(offset, i, col, row, c.data[i + 1])

\* The number of leading bytes of the buffer that take_while lets through.
RECURSIVE take_while_len(_, _)
take_while_len(c, i) ==
    IF i >= Len(c.data) THEN i
    ELSE IF content_item(c, i).offset < c.source_size
         THEN take_while_len(c, i + 1)
         ELSE i

Content_iter_filter(c) ==
    IF c.viewport.virtual_columns = 0
    THEN [tag |-> "panic", items |-> <<>>]
    ELSE [tag |-> "items",
          items |-> SelectSeq([i \in 1 .. Len(c.data) |-> content_item(c, i - 1)],
                              LAMBDA it : it.offset <= c.source_size)]
\* Content::iter: the items it yields, or the panic for virtual_columns = 0
Content_iter(c) ==
    IF c.viewport.virtual_columns = 0
    THEN [tag |-> "panic", items |-> <<>>]
    ELSE [tag |-> "items",
          items |-> [i \in 1 .. take_while_len(c, 0) |-> content_item(c, i - 1)]]

\* The calls of Source::read the loop of Content::update makes from row r on
RECURSIVE update_rows_reads(_, _, _)
update_rows_reads(source_size, viewport, r) ==
    IF r >= viewport.rows THEN 0
    ELSE IF Max(Min(viewport.columns,
                    source_size - ((viewport.y + r) * viewport.virtual_columns + viewport.x)),
                0) = 0
    THEN 0
    ELSE 1 + update_rows_reads(source_size, viewport, r + 1)

\* The calls of Source::read one Content::update makes
Content_update_reads(src, viewport) ==
    IF viewport.virtual_columns = 0 THEN 0
    ELSE update_rows_reads(Source_size(src), viewport, 0)

\* The calls of Source::read the loop of Content::update makes from row r
\* on, in order: the offset in the source and the length of the slice
RECURSIVE update_rows_requests(_, _, _)
update_rows_requests(source_size, viewport, r) ==
    IF r >= viewport.rows THEN <<>>
    ELSE
        LET source_offset == (viewport.y + r) * viewport.virtual_columns + viewport.x
            dst_size == Max(Min(viewport.columns, source_size - source_offset), 0)
        IN  IF dst_size = 0 THEN <<>>
            ELSE <<[offset |-> source_offset, len |-> dst_size]>>
                 \o update_rows_requests(source_size, viewport, r + 1)

\* The calls of Source::read one Content::update makes, in order
Content_update_requests(src, viewport) ==
    IF viewport.virtual_columns = 0 THEN <<>>
    ELSE update_rows_requests(Source_size(src), viewport, 0)

\* HexViewer::draw, the two calls of draw_content: the items of the content
\* the byte area and the char area are drawn from
draw_content_items(c) ==
    IF c.viewport.virtual_columns # 0
    THEN Content_iter(c)
    ELSE [tag |-> "items", items |-> <<>>]

(***************************************************************************)
(* Geometry (iced_core Point, Rectangle, Padding); pixels are integers     *)
(***************************************************************************)

Point_new(x, y) == [x |-> x, y |-> y]

Rectangle_new(x, y, width, height) == [x |-> x, y |-> y, width |-> width, height |-> height]

\* Rectangle::contains
Rectangle_contains(r, p) ==
    /\ r.x <= p.x /\ p.x < r.x + r.width
    /\ r.y <= p.y /\ p.y < r.y + r.height

\* Rectangle::shrink
Rectangle_shrink(r, padding) ==
    Rectangle_new(r.x + padding.left, r.y + padding.top,
                  r.width - (padding.left + padding.right),
                  r.height - (padding.top + padding.bottom))

\* Rectangle::union
Rectangle_union(a, b) ==
    LET x == Min(a.x, b.x)
        y == Min(a.y, b.y)
    IN  Rectangle_new(x, y,
                      Max(a.x + a.width, b.x + b.width) - x,
                      Max(a.y + a.height, b.y + b.height) - y)

\* Padding { top, right, bottom, left }
Padding_new(top, right, bottom, left) == [top |-> top, right |-> right, bottom |-> bottom, left |-> left]

\* Padding::x
Padding_x(p) == p.left + p.right

\* (a / b).ceil() and (a / b).floor() for b > 0
CeilDiv(a, b) == -((-a) \div b)
FloorDiv(a, b) == a \div b

\* The tagged values of Rust's Option
None == [tag |-> "None"]
Some(v) == [tag |-> "Some", value |-> v]
IsSome(o) == o.tag = "Some"

(***************************************************************************)
(* hex/viewer.rs: HexMetrics, PaddingSettings, HexPadding,                 *)
(* LayoutDimensions, Layout                                                *)
(***************************************************************************)

\* HexMetrics::new
HexMetrics_new(byte_width, char_width, height) == [byte_width |-> byte_width, char_width |-> char_width, height |-> height]

\* PaddingSettings::compact, in hundredths of the font height
PaddingSettings_compact ==
    [header_top |-> 30, header_bottom |-> 30,
     content_top |-> 30, content_bottom |-> 30,
     address_area_left |-> 60, address_area_right |-> 60,
     byte_area_left |-> 30, byte_area_right |-> 30,
     char_area_left |-> 25, char_area_right |-> 55,
     data_cell_vertical |-> 20,
     byte_cell_horizontal |-> 30, char_cell_horizontal |-> 5]

\* The closure `abs` of HexPadding::new: (value * metrics.height).round()
padding_abs(value, metrics) == (value * metrics.height + 50) \div 100

\* HexPadding::new
HexPadding_new(settings, metrics) ==
    [header_top |-> padding_abs(settings.header_top, metrics),
     header_bottom |-> padding_abs(settings.header_bottom, metrics),
     content_top |-> padding_abs(settings.content_top, metrics),
     content_bottom |-> padding_abs(settings.content_bottom, metrics),
     address_area_left |-> padding_abs(settings.address_area_left, metrics),
     address_area_right |-> padding_abs(settings.address_area_right, metrics),
     byte_area_left |-> padding_abs(settings.byte_area_left, metrics),
     byte_area_right |-> padding_abs(settings.byte_area_right, metrics),
     char_area_left |-> padding_abs(settings.char_area_left, metrics),
     char_area_right |-> padding_abs(settings.char_area_right, metrics),
     data_vertical |-> padding_abs(settings.data_cell_vertical, metrics),
     byte_horizontal |-> padding_abs(settings.byte_cell_horizontal, metrics),
     char_horizontal |-> padding_abs(settings.char_cell_horizontal, metrics)]

\* HexPadding::address_area_padding
address_area_padding(p) == Padding_new(p.content_top, p.address_area_right, p.content_bottom, p.address_area_left)

\* HexPadding::byte_area_padding
byte_area_padding(p) == Padding_new(p.content_top, p.byte_area_right, p.content_bottom, p.byte_area_left)

\* HexPadding::char_area_padding
char_area_padding(p) == Padding_new(p.content_top, p.char_area_right, p.content_bottom, p.char_area_left)

\* format!("{}", n).chars().count() for n >= 0
RECURSIVE DecimalDigits(_)
DecimalDigits(n) == IF n < 10 THEN 1 ELSE 1 + DecimalDigits(n \div 10)

\* LayoutDimensions::new for height = Length::Fill
LayoutDimensions_new(settings, columns, metrics, horizontal_scrollbar_height, vertical_scrollbar_width, source_size, bounds_size) ==
    [header_height |-> metrics.height + settings.header_top + settings.header_bottom,
     content_height |-> Max(bounds_size.height - horizontal_scrollbar_height, 0),
     address_area_width |-> DecimalDigits(source_size) * metrics.char_width
                            + settings.address_area_left + settings.address_area_right,
     byte_area_width |-> columns * (metrics.byte_width + 2 * settings.byte_horizontal)
                         + settings.byte_area_left + settings.byte_area_right,
     char_area_width |-> columns * (metrics.char_width + 2 * settings.char_horizontal)
                         + settings.char_area_left + settings.char_area_right,
     horizontal_scrollbar_height |-> horizontal_scrollbar_height,
     vertical_scrollbar_width |-> vertical_scrollbar_width]

\* LayoutDimensions::width
LayoutDimensions_width(dim) == dim.address_area_width + dim.byte_area_width + dim.char_area_width + dim.vertical_scrollbar_width

\* LayoutDimensions::content_width
LayoutDimensions_content_width(dim) == dim.byte_area_width + dim.char_area_width

\* LayoutDimensions::bounded_header_height
bounded_header_height(dim, bounds) == Min(dim.header_height, bounds.height)

\* LayoutDimensions::bounded_content_height
bounded_content_height(dim, bounds) ==
    Max(Min(dim.content_height,
            bounds.height - dim.header_height - dim.horizontal_scrollbar_height), 0)

\* LayoutDimensions::bounded_address_area_width
bounded_address_area_width(dim, bounds) == Min(dim.address_area_width, bounds.width)

\* LayoutDimensions::bounded_content_width
bounded_content_width(dim, bounds) ==
    Max(Min(LayoutDimensions_content_width(dim),
            bounds.width - dim.address_area_width - dim.vertical_scrollbar_width), 0)

\* The widths Layout::new gives the byte and the char area. When the bounds
\* are not as wide as the dimensions ask for, the two areas share the width
\* by the ratios of their contents and of their paddings.
Layout_area_widths(dim, padding, bounds) ==
    LET full_content_width == bounded_content_width(dim, bounds)
        byte_padding == Padding_x(byte_area_padding(padding))
        char_padding == Padding_x(char_area_padding(padding))
        content_width == Max(full_content_width - (byte_padding + char_padding), 0)
        byte_content == dim.byte_area_width - byte_padding
        char_content == dim.char_area_width - char_padding
        remaining_space == full_content_width - content_width
        byte_share == (content_width * byte_content) \div (byte_content + char_content)
        byte_padding_share == (byte_padding * remaining_space) \div (byte_padding + char_padding)
    IN  IF LayoutDimensions_width(dim) = bounds.width
        THEN [byte |-> dim.byte_area_width, char |-> dim.char_area_width]
        ELSE [byte |-> byte_share + byte_padding_share,
              char |-> (content_width - byte_share) + (remaining_space - byte_padding_share)]

\* Layout::new
Layout_new(dim, padding, source_size, virtual_columns, metrics, percentage_x, bounds) ==
    With(Layout_area_widths(dim, padding, bounds), LAMBDA widths :
    LET header_height == bounded_header_height(dim, bounds)
        content_height == bounded_content_height(dim, bounds)
        address_area_width == bounded_address_area_width(dim, bounds)
        top_left == Rectangle_new(bounds.x, bounds.y, address_area_width, header_height)
        byte_area_header ==
            Rectangle_new(top_left.x + top_left.width, bounds.y, widths.byte, header_height)
        char_area_header ==
            Rectangle_new(byte_area_header.x + byte_area_header.width, bounds.y,
                          widths.char, header_height)
        top_right ==
            Rectangle_new(char_area_header.x + char_area_header.width, bounds.y,
                          dim.vertical_scrollbar_width, header_height)
        address_area ==
            Rectangle_new(bounds.x, top_left.y + top_left.height,
                          address_area_width, content_height)
        byte_area ==
            Rectangle_new(address_area.x + address_area.width,
                          byte_area_header.y + byte_area_header.height,
                          widths.byte, content_height)
        char_area ==
            Rectangle_new(byte_area.x + byte_area.width,
                          char_area_header.y + char_area_header.height,
                          widths.char, content_height)
        byte_cell_width == metrics.byte_width + 2 * padding.byte_horizontal
        char_cell_width == metrics.char_width + 2 * padding.char_horizontal
    IN  [dim |-> dim, padding |-> padding, source_size |-> source_size,
         virtual_columns |-> virtual_columns, metrics |-> metrics,
         byte_cell_width |-> byte_cell_width, char_cell_width |-> char_cell_width,
         byte_shift |-> percentage_x * byte_cell_width,
         char_shift |-> percentage_x * char_cell_width,
         top_left |-> top_left, byte_area_header |-> byte_area_header,
         char_area_header |-> char_area_header, top_right |-> top_right,
         address_area |-> address_area, byte_area |-> byte_area,
         char_area |-> char_area])

\* Layout::width
Layout_width(l) == l.address_area.width + l.byte_area.width + l.char_area.width + l.top_right.width

\* Layout::byte_area_content
byte_area_content(l) == Rectangle_shrink(l.byte_area, byte_area_padding(l.padding))

\* Layout::char_area_content
char_area_content(l) == Rectangle_shrink(l.char_area, char_area_padding(l.padding))

\* Layout::row_height
row_height(l) == l.metrics.height + 2 * l.padding.data_vertical

\* Layout::byte_cell
byte_cell(l, col, row) ==
    Rectangle_new(l.byte_area.x + col * (l.metrics.byte_width + 2 * l.padding.byte_horizontal)
                      + l.padding.byte_area_left - l.byte_shift,
                  l.address_area.y + row * row_height(l) + l.padding.content_top,
                  l.metrics.byte_width + 2 * l.padding.byte_horizontal, row_height(l))

\* Layout::char_cell
char_cell(l, col, row) ==
    Rectangle_new(l.char_area.x + col * (l.metrics.char_width + 2 * l.padding.char_horizontal)
                      + l.padding.char_area_left - l.char_shift,
                  l.address_area.y + row * row_height(l) + l.padding.content_top,
                  l.metrics.char_width + 2 * l.padding.char_horizontal, row_height(l))

\* Layout::byte_cell_x_offset
byte_cell_x_offset(l, col) == l.byte_area.x + col * (l.metrics.byte_width + 2 * l.padding.byte_horizontal) + l.padding.byte_area_left - l.byte_shift

\* Layout::char_cell_x_offset
char_cell_x_offset(l, col) == l.char_area.x + col * (l.metrics.char_width + 2 * l.padding.char_horizontal) + l.padding.char_area_left - l.char_shift

\* Layout::cell_y_offset
cell_y_offset(l, row) == l.address_area.y + row * row_height(l) + l.padding.content_top

\* Layout::virtual_rows_ceil
virtual_rows_ceil(l) == (l.source_size + l.virtual_columns - 1) \div l.virtual_columns

\* Layout::viewport_column_count_ceil
viewport_column_count_ceil(l) == CeilDiv(byte_area_content(l).width, l.byte_cell_width)

\* Layout::viewport_column_count_floor; `virtual_columns - count < 0.01`
\* over the quotient count = width / byte_cell_width
viewport_column_count_floor(l) ==
    IF 100 * (l.virtual_columns * l.byte_cell_width - byte_area_content(l).width) < l.byte_cell_width
    THEN l.virtual_columns
    ELSE FloorDiv(byte_area_content(l).width, l.byte_cell_width)

\* Layout::viewport_row_count_ceil
viewport_row_count_ceil(l) == CeilDiv(byte_area_content(l).height, row_height(l))

\* Layout::viewport_row_count_floor
viewport_row_count_floor(l) ==
    IF 100 * (virtual_rows_ceil(l) * row_height(l) - byte_area_content(l).height) < row_height(l)
    THEN virtual_rows_ceil(l)
    ELSE FloorDiv(byte_area_content(l).height, row_height(l))

\* Layout::max_viewport_x_offset
max_viewport_x_offset(l) == Max(l.virtual_columns - viewport_column_count_floor(l), 0)

\* Layout::max_viewport_y_offset
max_viewport_y_offset(l) == Max(virtual_rows_ceil(l) - viewport_row_count_floor(l), 0)

\* Layout::scroll_area_bounds
scroll_area_bounds(l) ==
    Rectangle_new(l.address_area.x, l.address_area.y, Layout_width(l),
                  l.address_area.height + l.dim.horizontal_scrollbar_height)

\* Cell::new
Cell_new(col, row, side) == [col |-> col, row |-> row, side |-> side]

\* The variants of DataLocation and Location
DataLocation(kind, cell, n) == [kind |-> kind, cell |-> cell, n |-> n]
Location(kind, data) == [kind |-> kind, data |-> data]
NoCell == Cell_new(0, 0, "None")
NoData == DataLocation("NoData", NoCell, 0)

\* A pointer_location_in_data_area that takes the column whose left edge is
\* nearest to the point
pointer_location_in_data_area_nearest(l, point, content_rect, cell_width, shift) ==
    IF Rectangle_contains(content_rect, point)
    THEN DataLocation("Cell",
                      Cell_new(FloorDiv(2 * (point.x - (content_rect.x - shift)) + cell_width,
                                        2 * cell_width),
                               FloorDiv(point.y - content_rect.y, row_height(l)), "Left"), 0)
    ELSE DataLocation("PaddingRight", NoCell, FloorDiv(point.y - content_rect.y, row_height(l)))

\* Layout::pointer_location_in_data_area
pointer_location_in_data_area(l, point, content_rect, cell_width, shift) ==
    LET cell_row == FloorDiv(point.y - content_rect.y, row_height(l))
        cell_col_in == FloorDiv(point.x - (content_rect.x - shift), cell_width)
        in_cell_offset == (point.x - (content_rect.x - shift)) % cell_width
        side == IF 2 * in_cell_offset < cell_width THEN "Left" ELSE "Right"
        cell_col == FloorDiv(point.x - content_rect.x, cell_width)
    IN  IF Rectangle_contains(content_rect, point)
        THEN DataLocation("Cell", Cell_new(cell_col_in, cell_row, side), 0)
        ELSE IF point.y < content_rect.y
        THEN IF point.x < content_rect.x
             THEN DataLocation("CornerTopLeft", NoCell, 0)
             ELSE IF point.x < content_rect.x + content_rect.width
             THEN DataLocation("PaddingTop", NoCell, cell_col)
             ELSE DataLocation("CornerTopRight", NoCell, 0)
        ELSE IF point.y > content_rect.y + content_rect.height
        THEN IF point.x < content_rect.x
             THEN DataLocation("CornerBottomLeft", NoCell, 0)
             ELSE IF point.x < content_rect.x + content_rect.width
             THEN DataLocation("PaddingBottom", NoCell, cell_col)
             ELSE DataLocation("CornerBottomRight", NoCell, 0)
        ELSE IF point.x < content_rect.x
        THEN DataLocation("PaddingLeft", NoCell, cell_row)
        ELSE DataLocation("PaddingRight", NoCell, cell_row)

\* Layout::pointer_location_in_byte_area
pointer_location_in_byte_area(l, point) == With(byte_area_content(l), LAMBDA rect : pointer_location_in_data_area(l, point, rect, l.byte_cell_width, l.byte_shift))

\* Layout::pointer_location_in_char_area
pointer_location_in_char_area(l, point) == With(char_area_content(l), LAMBDA rect : pointer_location_in_data_area(l, point, rect, l.char_cell_width, l.char_shift))

\* Layout::pointer_location
pointer_location(l, point) ==
    IF Rectangle_contains(l.byte_area_header, point) THEN Location("ByteHeader", NoData)
    ELSE IF Rectangle_contains(l.char_area_header, point) THEN Location("CharHeader", NoData)
    ELSE IF Rectangle_contains(l.address_area, point) THEN Location("AddressArea", NoData)
    ELSE IF Rectangle_contains(l.byte_area, point)
    THEN Location("ByteArea", pointer_location_in_byte_area(l, point))
    ELSE IF Rectangle_contains(l.char_area, point)
    THEN Location("CharArea", pointer_location_in_char_area(l, point))
    ELSE Location("Other", NoData)

\* DataLocation::approximate_cell
DataLocation_approximate_cell(d, cols, rows) ==
    CASE d.kind = "Cell" -> d.cell
      [] d.kind = "PaddingLeft" -> Cell_new(0, d.n, "Left")
      [] d.kind = "PaddingRight" -> Cell_new(cols - 1, d.n, "Right")
      [] d.kind \in {"PaddingTop", "CornerTopLeft", "CornerTopRight"} ->
            Cell_new(0, 0, "Left")
      [] OTHER -> Cell_new(0, rows, "Right")

\* DataLocation::column
DataLocation_column(d) ==
    CASE d.kind = "Cell" -> Some(d.cell.col)
      [] d.kind \in {"PaddingTop", "PaddingBottom"} -> Some(d.n)
      [] OTHER -> None

\* DataLocation::row
DataLocation_row(d) ==
    CASE d.kind = "Cell" -> Some(d.cell.row)
      [] d.kind \in {"PaddingLeft", "PaddingRight"} -> Some(d.n)
      [] OTHER -> None

\* Location::approximate_cell
Location_approximate_cell(loc, cols, rows) ==
    IF loc.kind \in {"ByteArea", "CharArea"}
    THEN Some(DataLocation_approximate_cell(loc.data, cols, rows))
    ELSE None

\* Location::column
Location_column(loc) == IF loc.kind \in {"ByteArea", "CharArea"} THEN DataLocation_column(loc.data) ELSE None

\* Location::row
Location_row(loc) == IF loc.kind \in {"ByteArea", "CharArea"} THEN DataLocation_row(loc.data) ELSE None

(***************************************************************************)
(* core/scrollbar.rs: HorizontalScrollbar, VerticalScrollbar and the       *)
(* update they share.  A scrollbar is [dir, track, thumb, status] with     *)
(* dir "Horizontal" or "Vertical"; its State is [last_region, last_click]. *)
(***************************************************************************)

\* HorizontalScrollbar::default
HorizontalScrollbar_default == [dir |-> "Horizontal", track |-> 10, thumb |-> 10, status |-> "Active"]

\* VerticalScrollbar::default
VerticalScrollbar_default == [dir |-> "Vertical", track |-> 10, thumb |-> 10, status |-> "Active"]

\* HorizontalScrollbar::height and VerticalScrollbar::width
Scrollbar_thickness(sb) == Max(sb.track, sb.thumb)

\* scrollbar.rs State::default
ScrollbarState_default == [last_region |-> None, last_click |-> None]

\* The variants of ScrollbarRegion
ScrollbarRegion(kind, offset) == [kind |-> kind, offset |-> offset]

\* The variants of ScrollResult
ScrollResult(tag, kind, side, offset) == [tag |-> tag, kind |-> kind, side |-> side, offset |-> offset]
ScrollResult_None == ScrollResult("None", "Single", "Before", 0)
ScrollResult_AppearanceChanged == ScrollResult("AppearanceChanged", "Single", "Before", 0)

\* Viewport::virtual_size_in_pixels
virtual_size_in_pixels(v) == v.size * v.step_size

\* (bounds_length * viewport.viewport_ratio()).min(bounds_length).max(10.0);
\* the ratio is infinite or NaN for an empty axis
thumb_length(bounds_length, v) ==
    IF virtual_size_in_pixels(v) = 0
    THEN IF v.content_viewport_size < 0 THEN 10 ELSE Max(bounds_length, 10)
    ELSE Max(Min((bounds_length * v.content_viewport_size) \div virtual_size_in_pixels(v),
                 bounds_length), 10)

\* Scrollbar::thumb_offset_from_viewport
thumb_offset_from_viewport(v, bounds_length, thumb_len) ==
    IF virtual_max_offset(v) = 0 THEN 0
    ELSE (v.offset * Max(bounds_length - thumb_len, 0)) \div virtual_max_offset(v)

\* Scrollbar::layout of the two scrollbars
Scrollbar_layout(sb, bounds, v) ==
    LET across == IF sb.dir = "Horizontal" THEN bounds.height ELSE bounds.width
        along == IF sb.dir = "Horizontal" THEN bounds.width ELSE bounds.height
        start == IF sb.dir = "Horizontal" THEN bounds.y ELSE bounds.x
        \* center - (size / 2.0).min(self.height().min(across) / 2.0)
        edge(size) == (2 * start + across - Min(size, Min(Scrollbar_thickness(sb), across))) \div 2
    IN  IF bounds.width = 0 \/ bounds.height = 0 THEN None
        ELSE With(thumb_length(along, v), LAMBDA thumb_len :
             With(thumb_offset_from_viewport(v, along, thumb_len), LAMBDA offset :
             IF sb.dir = "Horizontal"
             THEN Some([track |-> Rectangle_new(bounds.x, edge(sb.track), bounds.width,
                                                Min(sb.track, bounds.height)),
                        thumb |-> Rectangle_new(bounds.x + offset, edge(sb.thumb), thumb_len,
                                                Min(sb.thumb, bounds.height))])
             ELSE Some([track |-> Rectangle_new(edge(sb.track), bounds.y,
                                                Min(sb.track, bounds.width), bounds.height),
                        thumb |-> Rectangle_new(edge(sb.thumb), bounds.y + offset,
                                                Min(sb.thumb, bounds.width), thumb_len)])))

\* The coordinate and the extent of a scrollbar along its direction
Along(sb, p) == IF sb.dir = "Horizontal" THEN p.x ELSE p.y
AlongLength(sb, r) == IF sb.dir = "Horizontal" THEN r.width ELSE r.height

\* A region whose thumb reaches to its trailing edge inclusively
Scrollbar_region_inclusive(sb, layout, cursor_position) ==
    IF Along(sb, cursor_position) < Along(sb, layout.thumb)
    THEN ScrollbarRegion("TrackBeforeThumb", Along(sb, cursor_position) - Along(sb, layout.track))
    ELSE IF Along(sb, cursor_position) <= Along(sb, layout.thumb) + AlongLength(sb, layout.thumb)
    THEN ScrollbarRegion("Thumb", Along(sb, cursor_position) - Along(sb, layout.thumb))
    ELSE ScrollbarRegion("TrackAfterThumb", Along(sb, cursor_position) - Along(sb, layout.track))

\* Scrollbar::region
Scrollbar_region(sb, layout, cursor_position) ==
    IF Along(sb, cursor_position) < Along(sb, layout.thumb)
    THEN ScrollbarRegion("TrackBeforeThumb", Along(sb, cursor_position) - Along(sb, layout.track))
    ELSE IF Along(sb, cursor_position) < Along(sb, layout.thumb) + AlongLength(sb, layout.thumb)
    THEN ScrollbarRegion("Thumb", Along(sb, cursor_position) - Along(sb, layout.thumb))
    ELSE ScrollbarRegion("TrackAfterThumb", Along(sb, cursor_position) - Along(sb, layout.track))

\* Scrollbar::max_visual_range
max_visual_range(sb, layout) == Max(AlongLength(sb, layout.track) - AlongLength(sb, layout.thumb), 0)

\* Scrollbar::thumb_offset_from_grab
thumb_offset_from_grab(sb, layout, cursor, grab_offset) ==
    Max(Min(Along(sb, cursor) - Along(sb, layout.track) - grab_offset,
            max_visual_range(sb, layout)), 0)

\* Scrollbar::track_click_offset
track_click_offset(sb, layout, cursor) ==
    Max(Min(Along(sb, cursor) - Along(sb, layout.track), AlongLength(sb, layout.track) - 1), 0)

\* Scrollbar::virtual_offset_from_visual
virtual_offset_from_visual(sb, layout, visual_offset, scroll_state) ==
    Min((virtual_max_offset(scroll_state) * visual_offset) \div Max(max_visual_range(sb, layout), 1),
        virtual_max_offset(scroll_state))

\* The parts of a pixel in which the lengths below are counted
PixelParts == 2

\* `f as i64` for an f32 that is not negative, counted in parts of a pixel
as_i64(f) == f \div PixelParts

\* A conversion that divides before it multiplies
virtual_offset_from_visual_divide_first(scroll_max, visual_offset, range) ==
    Min((scroll_max \div as_i64(Max(range, PixelParts))) * as_i64(visual_offset), scroll_max)

\* Scrollbar::virtual_offset_from_visual for a visual offset and a
\* max_visual_range that are counted in parts of a pixel, with the casts to
\* i64 of both: (scroll_max * visual_offset as i64
\* / max_visual_range.max(1.0) as i64).min(scroll_max)
virtual_offset_from_visual_parts(scroll_max, visual_offset, range) ==
    Min((scroll_max * as_i64(visual_offset)) \div as_i64(Max(range, PixelParts)), scroll_max)

\* mouse::Click::new: a click within 300 ms (`fast`) and 6 pixels of the
\* previous one continues its kind, any other click is a single one
Click_new(position, previous, fast) ==
    LET dx == position.x - previous.value.position.x
        dy == position.y - previous.value.position.y
        consecutive == IsSome(previous) /\ fast /\ dx * dx + dy * dy < 36
    IN  [position |-> position,
         kind |-> IF ~consecutive THEN "Single"
                  ELSE IF previous.value.kind = "Single" THEN "Double"
                  ELSE IF previous.value.kind = "Double" THEN "Triple"
                  ELSE "Double"]

\* The events a widget is updated with: [type, key, shift, x, y, fast, due]
\*   key    the named key of KeyPressed
\*   shift  the shift modifier of KeyPressed and ModifiersChanged
\*   x, y   the lines of WheelScrolled
\*   fast   whether a press comes within 300 ms of the previous click
\*   due    whether Instant::now() is past the target of the track timer
Event(type, key, shift, x, y, fast, due) == [type |-> type, key |-> key, shift |-> shift, x |-> x, y |-> y, fast |-> fast, due |-> due]

IsPress(event) == event.type \in {"ButtonPressed", "FingerPressed"}
IsRelease(event) == event.type \in {"ButtonReleased", "FingerLifted", "FingerLost"}
IsMove(event) == event.type \in {"CursorMoved", "FingerMoved"}

\* The closure `update` of scrollbar.rs update on a press over the scrollbar
scrollbar_update_press(sb, state, event, layout, scroll_state, cursor_position) ==
    With(Scrollbar_region(sb, layout, cursor_position), LAMBDA region :
    With(Click_new(cursor_position, state.last_click, event.fast), LAMBDA click :
    [state |-> [last_region |-> Some(region), last_click |-> Some(click)],
     result |->
        IF region.kind = "Thumb"
        THEN ScrollResult("ThumbGrabbed", click.kind, "Before", 0)
        ELSE ScrollResult("TrackClicked", click.kind,
                 IF region.kind = "TrackBeforeThumb" THEN "Before" ELSE "After",
                 virtual_offset_from_visual(sb, layout, region.offset, scroll_state))]))

\* The closure `track` of scrollbar.rs update
scrollbar_update_track(sb, state, layout, scroll_state, cursor_position, direction) ==
    ScrollResult("TrackHeld",
                 IF IsSome(state.last_click) THEN state.last_click.value.kind ELSE "Single",
                 direction,
                 virtual_offset_from_visual(sb, layout,
                     track_click_offset(sb, layout, cursor_position), scroll_state))

\* A held thumb that is dragged by every event
scrollbar_update_held_any_event(sb, state, event, layout, scroll_state, cursor_position) ==
    With(Scrollbar_region(sb, layout, cursor_position), LAMBDA region :
    With(virtual_offset_from_visual(sb, layout,
             thumb_offset_from_grab(sb, layout, cursor_position,
                                    state.last_region.value.offset),
             scroll_state), LAMBDA dragged :
    IF state.last_region.value.kind = "Thumb"
    THEN IF dragged # scroll_state.offset
         THEN ScrollResult("ThumbDragged", "Single", "Before", dragged)
         ELSE ScrollResult_None
    ELSE IF state.last_region.value.kind = region.kind
    THEN scrollbar_update_track(sb, state, layout, scroll_state, cursor_position,
                                IF region.kind = "TrackBeforeThumb" THEN "Before" ELSE "After")
    ELSE ScrollResult_None))

\* The closure `update` of scrollbar.rs update while a region is held
scrollbar_update_held(sb, state, event, layout, scroll_state, cursor_position) ==
    With(Scrollbar_region(sb, layout, cursor_position), LAMBDA region :
    With(virtual_offset_from_visual(sb, layout,
             thumb_offset_from_grab(sb, layout, cursor_position,
                                    state.last_region.value.offset),
             scroll_state), LAMBDA dragged :
    IF state.last_region.value.kind = "Thumb"
    THEN IF IsMove(event) /\ dragged # scroll_state.offset
         THEN ScrollResult("ThumbDragged", "Single", "Before", dragged)
         ELSE ScrollResult_None
    ELSE IF state.last_region.value.kind = region.kind
    THEN scrollbar_update_track(sb, state, layout, scroll_state, cursor_position,
                                IF region.kind = "TrackBeforeThumb" THEN "Before" ELSE "After")
    ELSE ScrollResult_None))

\* The closure `update` of scrollbar.rs update, for a cursor position and a
\* layout that are both there; `state` has the release already applied
scrollbar_update_closure(sb, state, event, layout, hovered, scroll_state, cursor_position) ==
    IF hovered /\ IsPress(event)
    THEN scrollbar_update_press(sb, state, event, layout, scroll_state, cursor_position)
    ELSE [state |-> state,
          result |-> IF IsSome(state.last_region)
                     THEN scrollbar_update_held(sb, state, event, layout, scroll_state,
                                                cursor_position)
                     ELSE ScrollResult_None]

\* The result and the status of scrollbar.rs update for the layout of the
\* scrollbar; `state` has the release already applied
scrollbar_update_layout(sb, status, state, event, layout, scroll_state, cursor, hovered) ==
    With(IF IsSome(cursor) /\ IsSome(layout)
         THEN scrollbar_update_closure(sb, state, event, layout.value, hovered,
                                       scroll_state.value, cursor.value)
         ELSE [state |-> state, result |-> ScrollResult_None],
         LAMBDA updated :
    [result |-> updated.result,
     status |-> IF status = "Disabled" THEN "Disabled"
                ELSE IF IsSome(updated.state.last_region) THEN "Dragged"
                ELSE IF hovered THEN "Hovered"
                ELSE "Active",
     state |-> updated.state])

\* Whether the pointer is on the scrollbar: scrollbar_hovered
scrollbar_hovered(layout, cursor) ==
    /\ IsSome(layout) /\ IsSome(cursor)
    /\ With(Rectangle_union(layout.value.track, layout.value.thumb),
            LAMBDA r : Rectangle_contains(r, cursor.value))

\* An update that returns for a missing viewport before it looks at the
\* event
scrollbar_update_return_first(sb, status, state, event, bounds, scroll_state, cursor) ==
    IF ~IsSome(scroll_state)
    THEN [result |-> ScrollResult_None, status |-> "Disabled", state |-> state]
    ELSE With(Scrollbar_layout(sb, bounds, scroll_state.value), LAMBDA layout :
         With(IF IsRelease(event) THEN [state EXCEPT !.last_region = None] ELSE state,
              LAMBDA state1 :
         With(scrollbar_hovered(layout, cursor), LAMBDA hovered :
             scrollbar_update_layout(sb, status, state1, event, layout, scroll_state,
                                     cursor, hovered))))

\* scrollbar.rs update: gives [result, status, state]
scrollbar_update(sb, status, state, event, bounds, scroll_state, cursor) ==
    LET released == IF IsRelease(event) THEN [state EXCEPT !.last_region = None] ELSE state
    IN  IF ~IsSome(scroll_state)
        THEN [result |-> ScrollResult_None, status |-> "Disabled", state |-> released]
        ELSE With(Scrollbar_layout(sb, bounds, scroll_state.value), LAMBDA layout :
             With(released, LAMBDA state1 :
             With(scrollbar_hovered(layout, cursor), LAMBDA hovered :
                 scrollbar_update_layout(sb, status, state1, event, layout, scroll_state,
                                         cursor, hovered))))

\* HorizontalScrollbar::update and VerticalScrollbar::update: give
\* [result, sb, state]
Scrollbar_update(sb, state, event, bounds, scroll_state, cursor) ==
    With(scrollbar_update(sb, sb.status, state, event, bounds, scroll_state, cursor),
         LAMBDA u :
    [result |-> IF u.status # sb.status /\ u.result.tag = "None"
                THEN ScrollResult_AppearanceChanged ELSE u.result,
     sb |-> [sb EXCEPT !.status = u.status],
     state |-> u.state])

(***************************************************************************)
(* core/scroll_area.rs: ScrollArea.  A scroll area is                      *)
(* [x_scrollbar, y_scrollbar], each an Option of a scrollbar; its State is *)
(* [x_state, y_state, shift], shift being keyboard_modifiers.shift().      *)
(***************************************************************************)

\* ScrollArea::new with both scrollbars, as HexViewer::new builds it
ScrollArea_new == [x_scrollbar |-> Some(HorizontalScrollbar_default), y_scrollbar |-> Some(VerticalScrollbar_default)]

\* scroll_area.rs State::default
ScrollAreaState_default == [x_state |-> ScrollbarState_default, y_state |-> ScrollbarState_default, shift |-> FALSE]

\* ScrollArea::horizontal_scrollbar_height
horizontal_scrollbar_height(sa) == IF IsSome(sa.x_scrollbar) THEN Scrollbar_thickness(sa.x_scrollbar.value) ELSE 0

\* ScrollArea::vertical_scrollbar_width
vertical_scrollbar_width(sa) == IF IsSome(sa.y_scrollbar) THEN Scrollbar_thickness(sa.y_scrollbar.value) ELSE 0

\* scroll_area.rs x_bounds
x_bounds(bounds, sa) ==
    Rectangle_new(bounds.x,
                  Max(bounds.y + bounds.height - horizontal_scrollbar_height(sa), bounds.y),
                  Max(bounds.width - vertical_scrollbar_width(sa), 0),
                  Min(bounds.height, horizontal_scrollbar_height(sa)))

\* scroll_area.rs y_bounds
y_bounds(bounds, sa) ==
    Rectangle_new(Max(bounds.x + bounds.width - vertical_scrollbar_width(sa), bounds.x),
                  bounds.y,
                  Min(bounds.width, vertical_scrollbar_width(sa)),
                  Max(bounds.height - horizontal_scrollbar_height(sa), 0))

\* The variants of ScrollAreaResult
ScrollAreaResult(tag, result, x, y) == [tag |-> tag, result |-> result, x |-> x, y |-> y]
ScrollAreaResult_None == ScrollAreaResult("None", ScrollResult_None, 0, 0)

\* Cursor::position_over
position_over(cursor, bounds) == IF IsSome(cursor) /\ Rectangle_contains(bounds, cursor.value) THEN cursor ELSE None

\* The vertical scrollbar's part of ScrollArea::update
ScrollArea_update_y(sa, state, event, bounds, y_viewport, cursor) ==
    IF IsSome(sa.y_scrollbar)
    THEN With(y_bounds(bounds, sa), LAMBDA yb :
         With(Scrollbar_update(sa.y_scrollbar.value, state.y_state, event, yb, y_viewport,
                               cursor), LAMBDA yu :
         [result |-> IF yu.result.tag # "None"
                     THEN ScrollAreaResult("Vertical", yu.result, 0, 0)
                     ELSE ScrollAreaResult_None,
          sa |-> [sa EXCEPT !.y_scrollbar = Some(yu.sb)],
          state |-> [state EXCEPT !.y_state = yu.state]]))
    ELSE [result |-> ScrollAreaResult_None, sa |-> sa, state |-> state]

\* The part of ScrollArea::update after the match on the event: the
\* horizontal scrollbar first, the vertical one only if that gave None
ScrollArea_update_scrollbars(sa, state, event, bounds, x_viewport, y_viewport, cursor) ==
    IF IsSome(sa.x_scrollbar)
    THEN With(x_bounds(bounds, sa), LAMBDA xb :
         With(Scrollbar_update(sa.x_scrollbar.value, state.x_state, event, xb, x_viewport,
                               cursor), LAMBDA xu :
         With([sa EXCEPT !.x_scrollbar = Some(xu.sb)], LAMBDA sa1 :
         With([state EXCEPT !.x_state = xu.state], LAMBDA state1 :
         IF xu.result.tag # "None"
         THEN [result |-> ScrollAreaResult("Horizontal", xu.result, 0, 0),
               sa |-> sa1, state |-> state1]
         ELSE ScrollArea_update_y(sa1, state1, event, bounds, y_viewport, cursor)))))
    ELSE ScrollArea_update_y(sa, state, event, bounds, y_viewport, cursor)

\* A wheel event with its ScrollDelta: Lines {x, y}, or Pixels {x, y} in the
\* unit of the step sizes
WheelEvent(pixels, x, y, due) ==
    [type |-> "WheelScrolled", key |-> "", shift |-> FALSE, x |-> x, y |-> y,
     fast |-> FALSE, due |-> due, pixels |-> pixels]

\* ScrollArea::update, WheelScrolled: the steps `delta` of the event, on a
\* target that is not MacOS.  Lines are swapped while shift is held; pixels
\* are (p / step_size).max(1.0) as i64, then negated.
wheel_delta(event, shift, x_viewport, y_viewport) ==
    IF event.pixels
    THEN [x |-> IF IsSome(x_viewport)
                THEN -Max(event.x \div x_viewport.value.step_size, 1) ELSE 0,
          y |-> IF IsSome(y_viewport)
                THEN -Max(event.y \div y_viewport.value.step_size, 1) ELSE 0]
    ELSE [x |-> -(IF shift THEN event.y ELSE event.x),
          y |-> -(IF shift THEN event.x ELSE event.y)]

\* ScrollArea::update: gives [result, sa, state]
ScrollArea_update(sa, state, event, bounds, x_viewport, y_viewport, cursor) ==
    IF event.type = "WheelScrolled" /\ ~IsSome(position_over(cursor, bounds))
    THEN [result |-> ScrollAreaResult_None, sa |-> sa, state |-> state]
    ELSE With(IF event.type = "WheelScrolled"
              THEN wheel_delta(event, state.shift, x_viewport, y_viewport)
              ELSE [x |-> 0, y |-> 0], LAMBDA delta :
         With(IF IsSome(x_viewport) THEN Viewport_add(x_viewport.value, delta.x) ELSE 0,
              LAMBDA x_new :
         With(IF IsSome(y_viewport) THEN Viewport_add(y_viewport.value, delta.y) ELSE 0,
              LAMBDA y_new :
         IF /\ event.type = "WheelScrolled"
            /\ \/ (IF IsSome(x_viewport) THEN x_viewport.value.offset ELSE 0) # x_new
               \/ (IF IsSome(y_viewport) THEN y_viewport.value.offset ELSE 0) # y_new
         THEN [result |-> ScrollAreaResult("WheelScroll", ScrollResult_None, x_new, y_new),
               sa |-> sa, state |-> state]
         ELSE With(IF event.type = "ModifiersChanged"
                   THEN [state EXCEPT !.shift = event.shift] ELSE state, LAMBDA state0 :
              ScrollArea_update_scrollbars(sa, state0, event, bounds, x_viewport,
                                           y_viewport, cursor)))))

(***************************************************************************)
(* hex/viewer.rs: HexViewer, its State and Widget::update.                 *)
(*                                                                         *)
(* A viewer is [cursor, virtual_columns, layout_settings, scroll_area,     *)
(* horizontal_navigation, vertical_navigation]; it steps by Step::Cell,    *)
(* its height is Length::Fill and all four intents have a handler, as the  *)
(* hex_showcase example builds it.  A navigation is "Lazy" or the          *)
(* Alignment of Navigation::Aligned.  The handlers work on                 *)
(* w = [hv, state, out]: the viewer, its State and the messages published  *)
(* to the Shell so far.                                                    *)
(***************************************************************************)

\* HexViewer::new followed by .cursor(cursor).virtual_columns(virtual_columns)
HexViewer_new(cursor, virtual_columns) ==
    [cursor |-> cursor, virtual_columns |-> virtual_columns,
     layout_settings |-> PaddingSettings_compact,
     scroll_area |-> ScrollArea_new,
     horizontal_navigation |-> "Lazy", vertical_navigation |-> "Lazy"]

\* viewer.rs State::new; shift is keyboard_modifiers.shift()
State_new ==
    [shift |-> FALSE,
     scroll_area_state |-> ScrollAreaState_default,
     last_reported_selection |-> NoSelection,
     last_reported_viewport |-> None,
     dragging |-> FALSE,
     start_index |-> None,
     focussed |-> FALSE,
     track_timer |-> None,
     hovered_column |-> None,
     hovered_row |-> None]

\* Timer::new(now, interval); the instants themselves are not kept, whether
\* the target is reached comes with each event
Timer_new(interval) == [interval |-> interval]

\* The messages of the application: [tag, cursor, viewport, selection]
Message(tag, cursor, viewport, sel) == [tag |-> tag, cursor |-> cursor, viewport |-> viewport, selection |-> sel]
Message_CursorMoved(cursor) == Message("CursorMoved", cursor, HexViewport_default, NoSelection)
Message_Scrolled(viewport) == Message("Scrolled", 0, viewport, NoSelection)
Message_LogicalViewportSizeChanged(viewport) == Message("LogicalViewportSizeChanged", 0, viewport, NoSelection)
Message_Selected(sel) == Message("Selected", 0, HexViewport_default, sel)

\* ScrollOffset::new
ScrollOffset_new(x, y) == [x |-> x, y |-> y]

\* State::start_index_or_set that sets the anchor anew every time
start_index_always_set(state, cursor) ==
    [state |-> [state EXCEPT !.start_index = Some(Index_new(cursor, "None"))],
     index |-> Index_new(cursor, "None")]

\* State::start_index_or_set: gives [state, index]
start_index_or_set(state, cursor) ==
    IF IsSome(state.start_index)
    THEN [state |-> state, index |-> state.start_index.value]
    ELSE [state |-> [state EXCEPT !.start_index = Some(Index_new(cursor, "None"))],
          index |-> Index_new(cursor, "None")]

\* HexViewer::cursor_can_decrease that lets the cursor at 0 decrease
cursor_can_decrease_at_zero(hv) == hv.cursor >= 0

\* HexViewer::cursor_can_decrease
cursor_can_decrease(hv) == hv.cursor > 0

\* HexViewer::cursor_can_increase
cursor_can_increase(hv, c) == hv.cursor + 1 < c.source_size

\* HexViewer::move_cursor_left
move_cursor_left(hv) == IF cursor_can_decrease(hv) THEN Some(hv.cursor - 1) ELSE None

\* HexViewer::move_cursor_right
move_cursor_right(hv, c) == IF cursor_can_increase(hv, c) THEN Some(hv.cursor + 1) ELSE None

\* HexViewer::move_cursor_up
move_cursor_up(hv) == IF cursor_can_decrease(hv) THEN Some(Max(hv.cursor - hv.virtual_columns, 0)) ELSE None

\* HexViewer::move_cursor_down
move_cursor_down(hv, c) ==
    IF cursor_can_increase(hv, c)
    THEN Some(Min(hv.cursor + hv.virtual_columns, Max(c.source_size, 1) - 1))
    ELSE None

\* HexViewer::move_cursor_page_up
move_cursor_page_up(hv, page_size) ==
    IF cursor_can_decrease(hv)
    THEN Some(Max(hv.cursor - page_size * hv.virtual_columns, 0))
    ELSE None

\* HexViewer::move_cursor_page_down that moves by one row
move_cursor_page_down_one_row(hv, c, page_size) ==
    IF cursor_can_increase(hv, c)
    THEN Some(Min(hv.cursor + hv.virtual_columns, Max(c.source_size, 1) - 1))
    ELSE None

\* HexViewer::move_cursor_page_down
move_cursor_page_down(hv, c, page_size) ==
    IF cursor_can_increase(hv, c)
    THEN Some(Min(hv.cursor + page_size * hv.virtual_columns, Max(c.source_size, 1) - 1))
    ELSE None

\* HexViewer::move_cursor_top
move_cursor_top(hv) == IF cursor_can_decrease(hv) THEN Some(0) ELSE None

\* HexViewer::move_cursor_bottom
move_cursor_bottom(hv, c) ==
    IF cursor_can_increase(hv, c) THEN Some(Max(c.source_size - 1, 0)) ELSE None

\* HexViewer::create_layout with HexViewer::create_layout_dimensions
create_layout(hv, c, metrics, bounds, shift_x) ==
    With(HexPadding_new(hv.layout_settings, metrics), LAMBDA settings :
    With(LayoutDimensions_new(settings, hv.virtual_columns, metrics,
                              horizontal_scrollbar_height(hv.scroll_area),
                              vertical_scrollbar_width(hv.scroll_area),
                              c.source_size, bounds), LAMBDA dimensions :
        Layout_new(dimensions, settings, c.source_size, hv.virtual_columns,
                   metrics, shift_x, bounds)))

\* HexViewer::x_viewport for Step::Cell
x_viewport(hv, c, layout) ==
    Viewport_new(c.viewport.x, hv.virtual_columns, layout.byte_cell_width,
                 byte_area_content(layout).width)

\* HexViewer::y_viewport
y_viewport(c, layout) ==
    Viewport_new(c.viewport.y, virtual_rows_ceil(layout), row_height(layout),
                 byte_area_content(layout).height)

\* HexViewer::create_viewport_from_scroll_offset with
\* HexViewer::viewport_offset_x for Step::Cell
create_viewport_from_scroll_offset(hv, c, layout, scroll_offset) ==
    create_viewport(hv.virtual_columns, c.source_size,
                    viewport_column_count_ceil(layout), viewport_row_count_ceil(layout),
                    scroll_offset.x, scroll_offset.y, 0)

\* HexViewer::cell_to_absolute
cell_to_absolute(hv, c, cell) ==
    LET offset == (c.viewport.y + cell.row) * hv.virtual_columns
                  + c.viewport.x + cell.col
    IN  IF offset < c.source_size
        THEN Index_new(offset, cell.side)
        ELSE Index_new(Max(c.source_size - 1, 1), "Right")

\* HexViewer::index
index(hv, c, layout, location) ==
    With(Location_approximate_cell(location, hv.virtual_columns,
                                   viewport_row_count_ceil(layout)), LAMBDA cell :
        IF IsSome(cell) THEN Some(cell_to_absolute(hv, c, cell.value)) ELSE None)

\* HexViewer::row_fully_in_viewport(..).is_some()
row_fully_in_viewport(c, row, layout) ==
    /\ row >= c.viewport.y
    /\ row < c.viewport.y + Min(c.viewport.rows, viewport_row_count_floor(layout))

\* HexViewer::column_fully_in_viewport(..).is_some()
column_fully_in_viewport(c, column, layout) ==
    /\ column >= c.viewport.x
    /\ column < c.viewport.x
                + Min(c.viewport.columns, viewport_column_count_floor(layout))
    /\ ~(column = c.viewport.x /\ c.viewport.percentage_x > 0)

\* The offset one axis of HexViewer::scroll_viewport chooses, before it is
\* clamped: scroll is [lazy, alignment]
scroll_axis(scroll, in_view, current, target, count_floor) ==
    IF scroll.lazy /\ in_view THEN current
    ELSE IF scroll.alignment = "Start" THEN target
    ELSE IF scroll.alignment = "Center" THEN target - (count_floor + 1) \div 2
    ELSE target - count_floor + 1

\* The column HexViewer::scroll_viewport chooses
scroll_viewport_column(hv, c, target_offset, layout, horizontal) ==
    Max(Min(scroll_axis(horizontal,
                        column_fully_in_viewport(c, target_offset % hv.virtual_columns, layout),
                        c.viewport.x, target_offset % hv.virtual_columns,
                        viewport_column_count_floor(layout)),
            max_viewport_x_offset(layout)), 0)

\* The row HexViewer::scroll_viewport chooses
scroll_viewport_row(hv, c, target_offset, layout, vertical) ==
    Max(Min(scroll_axis(vertical,
                        row_fully_in_viewport(c, target_offset \div hv.virtual_columns, layout),
                        c.viewport.y, target_offset \div hv.virtual_columns,
                        viewport_row_count_floor(layout)),
            max_viewport_y_offset(layout)), 0)

\* The percentage_x HexViewer::scroll_viewport chooses
scroll_viewport_percentage_x(hv, c, target_offset, layout, horizontal) ==
    IF horizontal.lazy
       /\ column_fully_in_viewport(c, target_offset % hv.virtual_columns, layout)
    THEN c.viewport.percentage_x ELSE 0

\* HexViewer::scroll_viewport: an Option of the new Viewport
scroll_viewport(hv, c, target_offset, layout, horizontal, vertical) ==
    With(scroll_viewport_column(hv, c, target_offset, layout, horizontal), LAMBDA column :
    With(scroll_viewport_row(hv, c, target_offset, layout, vertical), LAMBDA row :
    With(scroll_viewport_percentage_x(hv, c, target_offset, layout, horizontal),
         LAMBDA percentage_x :
        IF \/ column # c.viewport.x
           \/ percentage_x # c.viewport.percentage_x
           \/ row # c.viewport.y
        THEN Some(create_viewport(hv.virtual_columns, c.source_size,
                                  viewport_column_count_ceil(layout),
                                  viewport_row_count_ceil(layout),
                                  column, row, percentage_x))
        ELSE None)))

\* A get_scroll for which Lazy is an alignment like the others
get_scroll_aligned(navigation, key) ==
    [lazy |-> FALSE,
     alignment |-> IF navigation # "Lazy" THEN navigation
                   ELSE IF key \in {"ArrowLeft", "ArrowUp", "PageUp"} THEN "Start" ELSE "End"]

\* The closure get_scroll of Widget::update (KeyPressed)
get_scroll(navigation, key) ==
    IF navigation = "Lazy"
    THEN [lazy |-> TRUE,
          alignment |-> IF key \in {"ArrowLeft", "ArrowUp", "PageUp"} THEN "Start" ELSE "End"]
    ELSE [lazy |-> FALSE, alignment |-> navigation]

\* HexViewer::publish_scrolled
publish_scrolled(w, c, viewport) ==
    IF /\ viewport # c.viewport
       /\ Some([viewport |-> viewport, id |-> c.id]) # w.state.last_reported_viewport
    THEN [w EXCEPT !.out = Append(@, Message_Scrolled(viewport)),
                   !.state.last_reported_viewport =
                        Some([viewport |-> viewport, id |-> c.id])]
    ELSE w

\* HexViewer::publish_on_selection
publish_on_selection(w, sel) ==
    IF w.state.last_reported_selection # sel
    THEN [w EXCEPT !.out = Append(@, Message_Selected(sel)),
                   !.state.last_reported_selection = sel]
    ELSE w

\* HexViewer::publish_cursor_moved
publish_cursor_moved(w, cursor) == [w EXCEPT !.out = Append(@, Message_CursorMoved(cursor))]

\* HexViewer::check_state for the layout it has created
check_state_viewport(w, c, layout) ==
    With(ScrollOffset_new(fitted_scroll_offset(x_viewport(w.hv, c, layout)),
                          fitted_scroll_offset(y_viewport(c, layout))), LAMBDA scroll_offset :
    With(create_viewport_from_scroll_offset(w.hv, c, layout, scroll_offset),
         LAMBDA viewport :
        IF /\ viewport # c.viewport
           /\ Some([viewport |-> viewport, id |-> c.id]) # w.state.last_reported_viewport
        THEN [w EXCEPT !.out = Append(@, Message_LogicalViewportSizeChanged(viewport)),
                       !.state.last_reported_viewport =
                            Some([viewport |-> viewport, id |-> c.id])]
        ELSE w))

\* HexViewer::check_state: gives [layout, w]
check_state(w, c, metrics, bounds) ==
    With(create_layout(w.hv, c, metrics, bounds, 0), LAMBDA layout :
        [layout |-> layout, w |-> check_state_viewport(w, c, layout)])

\* The closure horizontal_track of HexViewer::handle_scroll_result
horizontal_track(kind, side, offset, xv) ==
    IF kind = "Double" THEN offset
    ELSE IF side = "Before" THEN Viewport_sub(xv, viewport_steps_floor(xv))
    ELSE Viewport_add(xv, viewport_steps_floor(xv))

\* The closure vertical_track of HexViewer::handle_scroll_result
vertical_track(kind, side, offset, layout, yv) ==
    IF kind = "Double" THEN offset
    ELSE IF side = "Before" THEN Max(yv.offset - viewport_row_count_floor(layout), 0)
    ELSE Min(yv.offset + viewport_row_count_floor(layout), virtual_max_offset(yv))

\* Timer::new(now, interval) with its target, instants in milliseconds
Timer_at(instant, interval) == [target |-> instant + interval, interval |-> interval]

\* Timer::target
Timer_target(t) == t.target

\* Timer::test(now).0
Timer_test(t, instant) == instant > t.target

\* Timer::set_at_interval
Timer_set_at_interval(t, instant) == [t EXCEPT !.target = instant + t.interval]

\* Whether `offset` lies beyond the offset of the viewport on the held side
beyond_on_side(side, offset, viewport) ==
    (side = "Before" /\ offset < viewport.offset) \/ (side = "After" /\ offset > viewport.offset)

\* A track_held that leaves the timer as it is when it scrolls
track_held_at_not_set(track_timer, side, offset, viewport, instant) ==
    IF IsSome(track_timer) /\ beyond_on_side(side, offset, viewport)
    THEN [track_timer |-> track_timer,
          runs |-> Timer_test(track_timer.value, instant),
          redraw_at |-> Some(Timer_target(track_timer.value))]
    ELSE [track_timer |-> track_timer, runs |-> FALSE, redraw_at |-> None]

\* The closure track_held of HexViewer::handle_scroll_result with the
\* instants kept: gives the timer, whether the closure f runs, and the
\* instant of shell.request_redraw_at if it is called
track_held_at(track_timer, side, offset, viewport, instant) ==
    IF IsSome(track_timer) /\ beyond_on_side(side, offset, viewport)
    THEN With(IF Timer_test(track_timer.value, instant)
              THEN Timer_set_at_interval(track_timer.value, instant)
              ELSE track_timer.value, LAMBDA last_track_scroll :
         [track_timer |-> Some(last_track_scroll),
          runs |-> Timer_test(track_timer.value, instant),
          redraw_at |-> Some(Timer_target(last_track_scroll))])
    ELSE [track_timer |-> track_timer, runs |-> FALSE, redraw_at |-> None]

\* The closure track_held of HexViewer::handle_scroll_result: whether the
\* closure f it is given runs
track_held(state, side, offset, viewport, due) ==
    /\ IsSome(state.track_timer)
    /\ (side = "Before" /\ offset < viewport.offset) \/ (side = "After" /\ offset > viewport.offset)
    /\ due

\* HexViewer::handle_scroll_result: gives [state, offset], offset the
\* Option<ScrollOffset> it returns
handle_scroll_result(state, result, layout, xv, yv, due) ==
    LET r == result.result
        clicked == [state EXCEPT !.track_timer = Some(Timer_new(100))]
    IN  IF result.tag = "Horizontal"
        THEN CASE r.tag = "ThumbDragged" ->
                    [state |-> state, offset |-> Some(ScrollOffset_new(r.offset, yv.offset))]
               [] r.tag = "TrackClicked" ->
                    [state |-> clicked,
                     offset |-> Some(ScrollOffset_new(
                                    horizontal_track(r.kind, r.side, r.offset, xv), yv.offset))]
               [] r.tag = "TrackHeld" ->
                    [state |-> state,
                     offset |-> IF track_held(state, r.side, r.offset, xv, due)
                                THEN Some(ScrollOffset_new(
                                         horizontal_track(r.kind, r.side, r.offset, xv),
                                         yv.offset))
                                ELSE None]
               [] OTHER -> [state |-> state, offset |-> None]
        ELSE IF result.tag = "Vertical"
        THEN CASE r.tag = "ThumbDragged" ->
                    [state |-> state, offset |-> Some(ScrollOffset_new(xv.offset, r.offset))]
               [] r.tag = "TrackClicked" ->
                    [state |-> clicked,
                     offset |-> Some(ScrollOffset_new(
                                    xv.offset,
                                    vertical_track(r.kind, r.side, r.offset, layout, yv)))]
               [] r.tag = "TrackHeld" ->
                    [state |-> state,
                     offset |-> IF track_held(state, r.side, r.offset, yv, due)
                                THEN Some(ScrollOffset_new(
                                         xv.offset,
                                         vertical_track(r.kind, r.side, r.offset, layout, yv)))
                                ELSE None]
               [] OTHER -> [state |-> state, offset |-> None]
        ELSE IF result.tag = "WheelScroll"
        THEN [state |-> state, offset |-> Some(ScrollOffset_new(result.x, result.y))]
        ELSE [state |-> state, offset |-> None]

\* Widget::update, ButtonPressed(Left) on a cell, that starts a drag only
\* without shift
update_ButtonPressed_index_no_drag(w, idx) ==
    IF w.state.shift
    THEN With(start_index_or_set(w.state, w.hv.cursor), LAMBDA start :
         With(selection(start.index, idx, idx.offset), LAMBDA sel :
             publish_on_selection([w EXCEPT !.state = start.state], sel)))
    ELSE [(IF idx.offset # w.hv.cursor THEN publish_cursor_moved(w, idx.offset) ELSE w)
             EXCEPT !.hv.cursor = idx.offset,
                    !.state.start_index = Some(idx),
                    !.state.dragging = TRUE]

\* Widget::update, ButtonPressed(Left) on the cell of index idx, the widget
\* focussed already
update_ButtonPressed_index(w, idx) ==
    IF w.state.shift
    THEN With(start_index_or_set(w.state, w.hv.cursor), LAMBDA start :
         With(selection(start.index, idx, idx.offset), LAMBDA sel :
             [publish_on_selection([w EXCEPT !.state = start.state], sel)
                 EXCEPT !.state.dragging = TRUE]))
    ELSE [(IF idx.offset # w.hv.cursor THEN publish_cursor_moved(w, idx.offset) ELSE w)
             EXCEPT !.hv.cursor = idx.offset,
                    !.state.start_index = Some(idx),
                    !.state.dragging = TRUE]

\* Widget::update, ButtonPressed(Left); `window` is the viewport of the window
update_ButtonPressed(w, c, layout, cursor_over_abs, cursor, window) ==
    IF IsSome(cursor_over_abs)
    THEN With(pointer_location(layout, cursor_over_abs.value), LAMBDA location :
         With(index(w.hv, c, layout, location), LAMBDA idx :
         With([w EXCEPT !.state.focussed = TRUE], LAMBDA focussed :
             IF IsSome(idx) THEN update_ButtonPressed_index(focussed, idx.value)
             ELSE focussed)))
    ELSE IF IsSome(position_over(cursor, window))
    THEN [w EXCEPT !.state.focussed = FALSE]
    ELSE w

\* A release that forgets the anchor with the drag
update_ButtonReleased_clear_anchor(w) ==
    [w EXCEPT !.state.dragging = FALSE, !.state.start_index = None]

\* Widget::update, ButtonReleased(Left)
update_ButtonReleased(w) == [w EXCEPT !.state.dragging = FALSE]

\* Widget::update, CursorMoved, the part that extends a selection
update_CursorMoved_drag(w, loc) ==
    IF w.state.dragging /\ IsSome(w.state.start_index) /\ IsSome(loc)
    THEN With(selection(w.state.start_index.value, loc.value, loc.value.offset),
              LAMBDA sel : publish_on_selection(w, sel))
    ELSE w

\* Widget::update, CursorMoved
update_CursorMoved(w, c, layout, cursor_over_abs) ==
    IF IsSome(cursor_over_abs)
    THEN With(pointer_location(layout, cursor_over_abs.value), LAMBDA location :
         With(index(w.hv, c, layout, location), LAMBDA loc :
             [update_CursorMoved_drag(w, loc)
                 EXCEPT !.state.hovered_column = Location_column(location),
                        !.state.hovered_row = Location_row(location)]))
    ELSE w

\* The keys that move the cursor
MovementKeys == {"ArrowLeft", "ArrowRight", "ArrowUp", "ArrowDown", "PageUp", "PageDown", "Home", "End"}

\* The match on the key of Widget::update (KeyPressed): maybe_new_cursor
maybe_new_cursor(hv, c, layout, key) ==
    CASE key = "ArrowLeft" -> move_cursor_left(hv)
      [] key = "ArrowRight" -> move_cursor_right(hv, c)
      [] key = "ArrowUp" -> move_cursor_up(hv)
      [] key = "ArrowDown" -> move_cursor_down(hv, c)
      [] key = "PageUp" -> move_cursor_page_up(hv, viewport_row_count_floor(layout))
      [] key = "PageDown" -> move_cursor_page_down(hv, c, viewport_row_count_floor(layout))
      [] key = "Home" -> move_cursor_top(hv)
      [] key = "End" -> move_cursor_bottom(hv, c)

\* A key with shift that reports the selection as cleared before it reports
\* the new one
update_KeyPressed_select_clear_first(w, new_cursor) ==
    IF IsSome(new_cursor)
    THEN With(start_index_or_set(w.state, w.hv.cursor), LAMBDA start :
         With(selection(start.index, Index_new(new_cursor.value, "None"), new_cursor.value),
              LAMBDA sel :
             [publish_on_selection(
                  publish_on_selection([w EXCEPT !.state = start.state], NoSelection), sel)
                 EXCEPT !.hv.cursor = new_cursor.value]))
    ELSE w

\* Widget::update, KeyPressed of a movement key with shift held
update_KeyPressed_select(w, new_cursor) ==
    IF IsSome(new_cursor)
    THEN With(start_index_or_set(w.state, w.hv.cursor), LAMBDA start :
         With(selection(start.index, Index_new(new_cursor.value, "None"), new_cursor.value),
              LAMBDA sel :
             [publish_on_selection([w EXCEPT !.state = start.state], sel)
                 EXCEPT !.hv.cursor = new_cursor.value]))
    ELSE w

\* Widget::update, KeyPressed of a movement key without shift, that leaves
\* the anchor and the selection alone when the cursor cannot move
update_KeyPressed_move_keep(w, new_cursor) ==
    IF IsSome(new_cursor)
    THEN [publish_cursor_moved([w EXCEPT !.state.start_index = None], new_cursor.value)
             EXCEPT !.hv.cursor = new_cursor.value]
    ELSE w

\* Widget::update, KeyPressed of a movement key without shift
update_KeyPressed_move(w, new_cursor) ==
    IF IsSome(new_cursor)
    THEN [publish_cursor_moved([w EXCEPT !.state.start_index = None], new_cursor.value)
             EXCEPT !.hv.cursor = new_cursor.value]
    ELSE publish_on_selection([w EXCEPT !.state.start_index = None], NoSelection)

\* Widget::update, KeyPressed, the scroll that follows the cursor
update_KeyPressed_scroll(w, c, layout, key) ==
    With(scroll_viewport(w.hv, c, w.hv.cursor, layout,
                         get_scroll(w.hv.horizontal_navigation, key),
                         get_scroll(w.hv.vertical_navigation, key)), LAMBDA viewport :
        IF IsSome(viewport) THEN publish_scrolled(w, c, viewport.value) ELSE w)

\* Widget::update, KeyPressed, that ignores Escape while shift is held
update_KeyPressed_escape_unshifted(w, c, layout, event) ==
    IF ~w.state.focussed THEN w
    ELSE IF event.key \notin MovementKeys
    THEN IF event.key = "Escape" /\ ~event.shift
         THEN publish_on_selection([w EXCEPT !.state.start_index = None], NoSelection)
         ELSE w
    ELSE With(maybe_new_cursor(w.hv, c, layout, event.key), LAMBDA new_cursor :
         With(IF event.shift THEN update_KeyPressed_select(w, new_cursor)
              ELSE update_KeyPressed_move(w, new_cursor), LAMBDA w1 :
             update_KeyPressed_scroll(w1, c, layout, event.key)))

\* Widget::update, KeyPressed, that does not look at the focus
update_KeyPressed_unfocussed(w, c, layout, event) ==
    IF event.key \notin MovementKeys
    THEN IF event.key = "Escape"
         THEN publish_on_selection([w EXCEPT !.state.start_index = None], NoSelection)
         ELSE w
    ELSE With(maybe_new_cursor(w.hv, c, layout, event.key), LAMBDA new_cursor :
         With(IF event.shift THEN update_KeyPressed_select(w, new_cursor)
              ELSE update_KeyPressed_move(w, new_cursor), LAMBDA w1 :
             update_KeyPressed_scroll(w1, c, layout, event.key)))

\* Widget::update, KeyPressed { key, modifiers }
update_KeyPressed(w, c, layout, event) ==
    IF ~w.state.focussed THEN w
    ELSE IF event.key \notin MovementKeys
    THEN IF event.key = "Escape"
         THEN publish_on_selection([w EXCEPT !.state.start_index = None], NoSelection)
         ELSE w
    ELSE With(maybe_new_cursor(w.hv, c, layout, event.key), LAMBDA new_cursor :
         With(IF event.shift THEN update_KeyPressed_select(w, new_cursor)
              ELSE update_KeyPressed_move(w, new_cursor), LAMBDA w1 :
             update_KeyPressed_scroll(w1, c, layout, event.key)))

\* Widget::update, ModifiersChanged
update_ModifiersChanged(w, event) == [w EXCEPT !.state.shift = event.shift]

\* Widget::update, the match on the event
update_event(w, c, layout, event, cursor_over_abs, cursor, window) ==
    CASE event.type = "ButtonPressed" ->
            update_ButtonPressed(w, c, layout, cursor_over_abs, cursor, window)
      [] event.type = "ButtonReleased" -> update_ButtonReleased(w)
      [] event.type = "CursorMoved" -> update_CursorMoved(w, c, layout, cursor_over_abs)
      [] event.type = "KeyPressed" -> update_KeyPressed(w, c, layout, event)
      [] event.type = "ModifiersChanged" -> update_ModifiersChanged(w, event)
      [] OTHER -> w

\* Widget::update after check_state, for the layout and the scroll
\* viewports of the two axes
update_scroll_area(w, c, layout, xv, yv, event, cursor_over_abs, cursor, window) ==
    With(ScrollArea_update(w.hv.scroll_area, w.state.scroll_area_state, event,
                           scroll_area_bounds(layout), Some(xv), Some(yv), cursor),
         LAMBDA area :
    With(handle_scroll_result([w.state EXCEPT !.scroll_area_state = area.state],
                              area.result, layout, xv, yv, event.due), LAMBDA handled :
    With([hv |-> [w.hv EXCEPT !.scroll_area = area.sa],
          state |-> handled.state,
          out |-> w.out], LAMBDA w1 :
        IF IsSome(handled.offset)
        THEN With(create_viewport_from_scroll_offset(w1.hv, c, layout, handled.offset.value),
                  LAMBDA viewport : publish_scrolled(w1, c, viewport))
        ELSE update_event(w1, c, layout, event, cursor_over_abs, cursor, window))))

\* An update that goes on to its own processing of the event after it has
\* published the viewport of a scroll offset
update_scroll_area_event_too(w, c, layout, xv, yv, event, cursor_over_abs, cursor, window) ==
    With(ScrollArea_update(w.hv.scroll_area, w.state.scroll_area_state, event,
                           scroll_area_bounds(layout), Some(xv), Some(yv), cursor),
         LAMBDA area :
    With(handle_scroll_result([w.state EXCEPT !.scroll_area_state = area.state],
                              area.result, layout, xv, yv, event.due), LAMBDA handled :
    With([hv |-> [w.hv EXCEPT !.scroll_area = area.sa],
          state |-> handled.state,
          out |-> w.out], LAMBDA w1 :
        IF IsSome(handled.offset)
        THEN With(create_viewport_from_scroll_offset(w1.hv, c, layout, handled.offset.value),
                  LAMBDA viewport :
                      update_event(publish_scrolled(w1, c, viewport), c, layout, event,
                                   cursor_over_abs, cursor, window))
        ELSE update_event(w1, c, layout, event, cursor_over_abs, cursor, window))))

HexViewer_update_event_too(hv, c, state, event, bounds, metrics, cursor, window) ==
    With(check_state([hv |-> hv, state |-> state, out |-> <<>>], c, metrics, bounds),
         LAMBDA checked :
    With(x_viewport(hv, c, checked.layout), LAMBDA xv :
    With(y_viewport(c, checked.layout), LAMBDA yv :
    With(position_over(cursor, bounds), LAMBDA cursor_over_abs :
        update_scroll_area_event_too(checked.w, c, checked.layout, xv, yv, event,
                                     cursor_over_abs, cursor, window)))))

\* Widget::update of HexViewer for the content c the viewer was built with:
\* gives [hv, state, out], out the messages published to the shell
HexViewer_update(hv, c, state, event, bounds, metrics, cursor, window) ==
    With(check_state([hv |-> hv, state |-> state, out |-> <<>>], c, metrics, bounds),
         LAMBDA checked :
    With(x_viewport(hv, c, checked.layout), LAMBDA xv :
    With(y_viewport(c, checked.layout), LAMBDA yv :
    With(position_over(cursor, bounds), LAMBDA cursor_over_abs :
        update_scroll_area(checked.w, c, checked.layout, xv, yv, event, cursor_over_abs,
                           cursor, window)))))

\* Widget::layout of HexViewer: the size of its node for the space `limits`
\* the parent offers.  The dimensions are created for Size::INFINITE, so the
\* height resolves to that of the limits.
HexViewer_layout(hv, c, metrics, limits) ==
    With(LayoutDimensions_new(HexPadding_new(hv.layout_settings, metrics),
                              hv.virtual_columns, metrics,
                              horizontal_scrollbar_height(hv.scroll_area),
                              vertical_scrollbar_width(hv.scroll_area), c.source_size,
                              limits), LAMBDA dim :
        Rectangle_new(0, 0, Min(LayoutDimensions_width(dim), limits.width), limits.height))

\* Selection::last_contained
Selection_last_contained(sel) ==
    IF sel.last < sel.offset THEN sel.offset
    ELSE IF sel.last >= sel.offset + sel.length THEN sel.offset + sel.length - 1
    ELSE sel.last

(***************************************************************************)
(* examples/hex_showcase/src/component.rs: HexComponent, the application   *)
(* around the viewer.  Its state is [viewport, columns, cursor, selection] *)
(* and the Content it owns.                                                *)
(***************************************************************************)

\* HexComponent::new with `columns` columns
HexComponent_new(columns) ==
    [viewport |-> HexViewport_default, columns |-> columns, cursor |-> 0,
     selection |-> NoSelection, horizontal_navigation |-> None,
     vertical_navigation |-> None]

\* HexComponent::set_horizontal_navigation and set_vertical_navigation
set_navigation(a, horizontal, vertical) ==
    [a EXCEPT !.horizontal_navigation = Some(horizontal),
              !.vertical_navigation = Some(vertical)]

\* HexComponent::update: gives [app, content]
HexComponent_update(a, c, src, message) ==
    CASE message.tag = "CursorMoved" ->
            [app |-> [a EXCEPT !.cursor = message.cursor, !.selection = NoSelection],
             content |-> c]
      [] message.tag \in {"Scrolled", "LogicalViewportSizeChanged"} ->
            [app |-> [a EXCEPT !.viewport = message.viewport],
             content |-> Content_update(c, src, message.viewport)]
      [] message.tag = "Selected" ->
            [app |-> [a EXCEPT !.selection = message.selection,
                               !.cursor = IF message.selection.tag = "Some"
                                          THEN Selection_last_contained(message.selection)
                                          ELSE @],
             content |-> c]

\* HexComponent::update for each message of a batch, from message i on
RECURSIVE HexComponent_update_all(_, _, _, _, _)
HexComponent_update_all(a, c, src, messages, i) ==
    IF i > Len(messages) THEN [app |-> a, content |-> c]
    ELSE With(HexComponent_update(a, c, src, messages[i]), LAMBDA u :
             HexComponent_update_all(u.app, u.content, src, messages, i + 1))

\* HexComponent::view: the viewer it builds
HexComponent_view(a) ==
    [HexViewer_new(a.cursor, a.columns)
        EXCEPT !.horizontal_navigation =
                   IF IsSome(a.horizontal_navigation) THEN a.horizontal_navigation.value ELSE @,
               !.vertical_navigation =
                   IF IsSome(a.vertical_navigation) THEN a.vertical_navigation.value ELSE @]

(***************************************************************************)
(* What surrounds the viewer: the font, the space it is laid out in, the   *)
(* window, and the inputs a user gives it.                                 *)
(***************************************************************************)

\* A configuration: the metrics of the font, the space the parent offers
\* (the limits of Widget::layout), the viewport of the window, the points
\* the pointer visits, the keys pressed, the wheel movements, whether a
\* press can come within 300 ms of the click before it, and the number of
\* events of a session if sessions are followed up to a length only
Config(metrics, limits, window, points, keys, wheel, fast, events) == [metrics |-> metrics, limits |-> limits, window |-> window, points |-> points, keys |-> keys, wheel |-> wheel, fast |-> fast, events |-> events]

\* The metrics of a monospace font: a byte cell of two characters
FontMetrics == HexMetrics_new(12, 6, 10)

\* The space in which exactly `rows` rows of a viewer of `columns` columns
\* over `source_size` bytes fit, and nothing is cut off horizontally
FittingLimits(source_size, columns, rows) ==
    With(HexPadding_new(PaddingSettings_compact, FontMetrics), LAMBDA padding :
    With(LayoutDimensions_new(padding, columns, FontMetrics,
                              horizontal_scrollbar_height(ScrollArea_new),
                              vertical_scrollbar_width(ScrollArea_new), source_size,
                              [width |-> 0, height |-> 0]), LAMBDA dim :
        [width |-> LayoutDimensions_width(dim),
         height |-> dim.header_height + padding.content_top
                    + rows * (FontMetrics.height + 2 * padding.data_vertical)
                    + padding.content_bottom + dim.horizontal_scrollbar_height]))

\* The layout of a viewer of `columns` columns over `source_size` bytes
LayoutIn(source_size, columns, limits) ==
    With(HexViewer_new(0, columns), LAMBDA hv0 :
    With(HexViewer_layout(hv0, [source_size |-> source_size], FontMetrics, limits),
         LAMBDA bounds :
        create_layout(hv0, [source_size |-> source_size], FontMetrics, bounds, 0)))

\* The middles of the left and the right half of the byte cells of the
\* first `rows` rows
CellPoints(l, rows) ==
    { Point_new(byte_cell_x_offset(l, col) + (q * l.byte_cell_width) \div 4,
                cell_y_offset(l, row) + row_height(l) \div 2) :
        col \in 0 .. l.virtual_columns - 1, row \in 0 .. rows - 1, q \in {1, 3} }

\* Two points on the vertical scrollbar, near the ends of its track
VerticalBarPoints(l) ==
    With(y_bounds(scroll_area_bounds(l), ScrollArea_new), LAMBDA b :
        { Point_new(b.x + b.width \div 2, y) : y \in {b.y + 6, b.y + b.height - 6} })

\* A point on the horizontal scrollbar, below the first cell
HorizontalBarPoints(l) ==
    With(x_bounds(scroll_area_bounds(l), ScrollArea_new), LAMBDA b :
        { Point_new(byte_cell_x_offset(l, 0) + l.byte_cell_width \div 2,
                    b.y + b.height \div 2) })

\* A point of the window beside the viewer
OutsidePoint(limits) == Point_new(limits.width + 5, 5)

\* The window: the viewer and a margin to its right and below
WindowOf(limits) == Rectangle_new(0, 0, limits.width + 10, limits.height + 10)

(***************************************************************************)
(* The parts of the program are explored by one specification each; the    *)
(* variables of the other parts rest in the state below.                   *)
(***************************************************************************)

\* The axis variables while another part of the program is explored.
AxisIdle ==
    /\ axis = Viewport_new(0, 0, 1, 0)
    /\ axis_prev = axis
    /\ axis_op = "new"
    /\ axis_res = 0

\* The selection variables while another part of the program is explored.
IxIdle ==
    /\ ix_a = Index_new(0, "None")
    /\ ix_b = Index_new(0, "None")
    /\ ix_cursor = 0
    /\ ix_sel = NoSelection
    /\ ix_rev = NoSelection
    /\ ix_pc = "args"

\* The content variables while another part of the program is explored.
ContentHistoryIdle ==
    /\ c_hist = [op |-> "new", arg |-> HexViewport_default, before |-> content,
                 prev_op |-> "new", prev_arg |-> HexViewport_default]
    /\ c_items = [tag |-> "none", items |-> <<>>]

ContentIdle ==
    /\ source = [size |-> 0, chunk |-> 0]
    /\ content = Content_new(source, 0)
    /\ ContentHistoryIdle

\* The counter and the other Contents while another part of the program is
\* explored: the one Content of the application has taken id 0.
IdIdle ==
    /\ CONTENT_COUNTER = 1
    /\ contents = <<>>

\* The scrollbar that is updated by itself and the timer, while another part
\* of the program is explored.
BarIdle ==
    /\ bar = HorizontalScrollbar_default
    /\ bar_state = ScrollbarState_default
    /\ bar_bounds = Rectangle_new(0, 0, 0, 0)
    /\ bar_seen = <<>>
    /\ timer = None
    /\ now = 0

\* The event before the first one
NoEvent == [type |-> "None", key |-> "", cell |-> None, shift |-> FALSE]

\* The viewer variables at the start, in the configuration c
ViewerStart(c, columns) ==
    /\ cfg = c
    /\ app = HexComponent_new(columns)
    /\ viewer = HexComponent_view(app)
    /\ tree = State_new
    /\ env = [cursor |-> Some(OutsidePoint(c.limits)), button |-> FALSE, shift |-> FALSE,
             events |-> 0]
    /\ seen = NoEvent
    /\ out = <<>>

\* The viewer variables while another part of the program is explored.
ViewerIdle == ViewerStart(Config(FontMetrics, [width |-> 0, height |-> 0], WindowOf([width |-> 0, height |-> 0]), {}, {}, {}, {FALSE}, None), 1)

(***************************************************************************)
(* Specification of the axis Viewport                                      *)
(***************************************************************************)

AxisInit ==
    /\ axis \in AxisStates
    /\ axis_prev = axis
    /\ axis_op = "new"
    /\ axis_res = 0
    /\ IxIdle
    /\ IdIdle
    /\ BarIdle
    /\ ContentIdle
    /\ ViewerIdle

\* v.fitted_scroll_offset()
AxisFit ==
    /\ axis_res' = fitted_scroll_offset(axis)
    /\ axis_op' = "fitted_scroll_offset"
    /\ axis_prev' = axis
    /\ UNCHANGED axis
    /\ UNCHANGED <<ixVars, contentVars, viewerVars, idVars, barVars>>

\* v.add_steps(n)
AxisAddSteps ==
    \E n \in (0 - MaxAxisSteps) .. MaxAxisSteps :
        /\ axis.offset + n \in AxisOffsets
        /\ axis' = add_steps(axis, n)
        /\ axis_prev' = axis
        /\ axis_op' = "add_steps"
        /\ axis_res' = n
        /\ UNCHANGED <<ixVars, contentVars, viewerVars, idVars, barVars>>

\* v.subtract_steps(n)
AxisSubtractSteps ==
    \E n \in (0 - MaxAxisSteps) .. MaxAxisSteps :
        /\ axis.offset - n \in AxisOffsets
        /\ axis' = subtract_steps(axis, n)
        /\ axis_prev' = axis
        /\ axis_op' = "subtract_steps"
        /\ axis_res' = n
        /\ UNCHANGED <<ixVars, contentVars, viewerVars, idVars, barVars>>

\* v + n
AxisAdd ==
    \E n \in (0 - MaxAxisSteps) .. MaxAxisSteps :
        /\ axis_res' = Viewport_add(axis, n)
        /\ axis_op' = "add"
        /\ axis_prev' = axis
        /\ UNCHANGED axis
        /\ UNCHANGED <<ixVars, contentVars, viewerVars, idVars, barVars>>

\* v - n
AxisSub ==
    \E n \in (0 - MaxAxisSteps) .. MaxAxisSteps :
        /\ axis_res' = Viewport_sub(axis, n)
        /\ axis_op' = "sub"
        /\ axis_prev' = axis
        /\ UNCHANGED axis
        /\ UNCHANGED <<ixVars, contentVars, viewerVars, idVars, barVars>>

\* Viewport::new with another size, the other fields kept
AxisResize ==
    \E s \in 0 .. MaxAxisSize :
        /\ axis.size <= MaxAxisSize
        /\ axis' = Viewport_new(axis.offset, s, axis.step_size,
                                axis.content_viewport_size)
        /\ axis_prev' = axis
        /\ axis_op' = "new"
        /\ axis_res' = 0
        /\ UNCHANGED <<ixVars, contentVars, viewerVars, idVars, barVars>>

AxisNext ==
    \/ AxisFit
    \/ AxisAddSteps
    \/ AxisSubtractSteps
    \/ AxisAdd
    \/ AxisSub
    \/ AxisResize

SpecAxis == AxisInit /\ [][AxisNext]_vars

InRange(x, lo, hi) == lo <= x /\ x <= hi

\* C1: for every axis Viewport with size >= 0, step_size > 0 and content
\* size >= 0 and any integer offset, fitted_scroll_offset() lies in
\* [0, virtual_max_offset()].
C1_FittedInRange ==
    axis_op = "fitted_scroll_offset" =>
        /\ axis_res >= 0
        /\ axis_res <= virtual_max_offset(axis)
        /\ virtual_max_offset(axis) >= 0

C1_Witness ==
    /\ axis_op = "fitted_scroll_offset"
    /\ axis.offset < 0
    /\ axis.size > axis.content_viewport_size \div axis.step_size
    /\ axis_res = 0

\* C2: virtual_max_offset() = max(0, size - floor(content_viewport_size /
\* step_size)) and fitted_scroll_offset() = clamp(offset, 0,
\* virtual_max_offset()); size 1000, step 1, content 100 give 900 and the
\* offset 950 is fitted to 900.
C2_MaxAndClamp ==
    LET fl == axis.content_viewport_size \div axis.step_size
        mx == IF axis.size - fl > 0 THEN axis.size - fl ELSE 0
        cl == IF axis.offset < 0 THEN 0
              ELSE IF axis.offset > mx THEN mx ELSE axis.offset
    IN  /\ virtual_max_offset(axis) = mx
        /\ axis_op = "fitted_scroll_offset" => axis_res = cl
        /\ (axis_op = "fitted_scroll_offset" /\ axis = ScenarioAxis) =>
               (virtual_max_offset(axis) = 900 /\ axis_res = 900)

C2_Witness ==
    /\ axis_op = "fitted_scroll_offset"
    /\ axis = ScenarioAxis
    /\ axis_res = 900

\* C3: with step_size and content size fixed, virtual_max_offset() is
\* monotonically non-decreasing in size.
C3_MaxOffsetMonotone ==
    (/\ axis_op = "new"
     /\ axis_prev.step_size = axis.step_size
     /\ axis_prev.content_viewport_size = axis.content_viewport_size
     /\ axis_prev.size <= axis.size)
        => virtual_max_offset(axis_prev) <= virtual_max_offset(axis)

C3_Witness ==
    /\ axis_op = "new"
    /\ axis_prev.size < axis.size
    /\ axis_prev.size < viewport_steps_floor(axis)
    /\ virtual_max_offset(axis_prev) < virtual_max_offset(axis)

\* C4: every way of adding or subtracting a step count re-clamps the offset:
\* the offset of add_steps(n) and subtract_steps(n) and the value of
\* `viewport + n` and `viewport - n` lie in [0, virtual_max_offset()];
\* `viewport - n` equals `viewport + (-n)` and the operators do not modify
\* the viewport.
C4_StepsReclamped ==
    /\ axis_op \in {"add_steps", "subtract_steps"} =>
           InRange(axis.offset, 0, virtual_max_offset(axis))
    /\ axis_op \in {"add", "sub"} =>
           (InRange(axis_res, 0, virtual_max_offset(axis)) /\ axis = axis_prev)
    /\ axis_op = "sub" =>
           \E n \in (0 - MaxAxisSteps) .. MaxAxisSteps :
               axis_res = Viewport_sub(axis, n) /\ axis_res = Viewport_add(axis, 0 - n)

(***************************************************************************)
(* Specification of HexViewer::selection                                   *)
(***************************************************************************)

IxInit ==
    /\ ix_a \in Indices
    /\ ix_b \in Indices
    /\ ix_cursor \in 0 .. MaxIndexOffset
    /\ ix_sel = NoSelection
    /\ ix_rev = NoSelection
    /\ ix_pc = "args"
    /\ AxisIdle
    /\ ContentIdle
    /\ ViewerIdle
    /\ IdIdle
    /\ BarIdle

\* self.selection(a, b, x)
IxSelect ==
    /\ ix_pc = "args"
    /\ ix_sel' = selection(ix_a, ix_b, ix_cursor)
    /\ ix_pc' = "one"
    /\ UNCHANGED <<ix_a, ix_b, ix_cursor, ix_rev>>
    /\ UNCHANGED <<axisVars, contentVars, viewerVars, idVars, barVars>>

\* self.selection(b, a, x)
IxSelectReversed ==
    /\ ix_pc = "one"
    /\ ix_rev' = selection(ix_b, ix_a, ix_cursor)
    /\ ix_pc' = "both"
    /\ UNCHANGED <<ix_a, ix_b, ix_cursor, ix_sel>>
    /\ UNCHANGED <<axisVars, contentVars, viewerVars, idVars, barVars>>

IxNext ==
    \/ IxSelect
    \/ IxSelectReversed

SpecSelection == IxInit /\ [][IxNext]_vars

\* C5: selection(a, b, x) orders the two indices as (left, right) by offset,
\* then side (Left < None < Right); start = left.offset + 1 if left.side is
\* Right; length = right.offset - left.offset - 1 + (1 if left.side is Left
\* or None) + (1 if right.side is Right or None); the result is None when
\* length <= 0 and Selection{offset: start, length, last: x} otherwise.
C5_SelectionFormula ==
    LET rank == [s \in Sides |->
                    IF s = "Left" THEN 0 ELSE IF s = "None" THEN 1 ELSE 2]
        aFirst == \/ ix_a.offset < ix_b.offset
                  \/ ix_a.offset = ix_b.offset /\ rank[ix_a.side] <= rank[ix_b.side]
        l == IF aFirst THEN ix_a ELSE ix_b
        r == IF aFirst THEN ix_b ELSE ix_a
        start == l.offset + (IF l.side = "Right" THEN 1 ELSE 0)
        len == r.offset - l.offset - 1
               + (IF l.side \in {"Left", "None"} THEN 1 ELSE 0)
               + (IF r.side \in {"Right", "None"} THEN 1 ELSE 0)
    IN  ix_pc # "args" =>
            ix_sel = IF len <= 0 THEN [tag |-> "None"]
                     ELSE [tag |-> "Some", offset |-> start, length |-> len,
                           last |-> ix_cursor]

C5_Witness ==
    /\ ix_pc = "one"
    /\ ix_a = Index_new(2, "Left")
    /\ ix_b = Index_new(0, "Right")
    /\ ix_cursor = 0
    /\ ix_sel = [tag |-> "Some", offset |-> 1, length |-> 1, last |-> 0]

\* C6: selection is order-independent: selection(a, b, x) = selection(b, a, x)
\* for all index pairs (a = b included) and every x.
C6_SelectionSymmetric ==
    ix_pc = "both" => ix_sel = ix_rev

C6_Witness ==
    /\ ix_pc = "both"
    /\ ix_a.offset = ix_b.offset
    /\ ix_a.side = "Right"
    /\ ix_b.side = "Left"
    /\ ix_sel = ix_rev
    /\ ix_sel.tag = "Some"

(***************************************************************************)
(* Specification of Content                                                *)
(***************************************************************************)

\* The source and the viewport of the example: 100 bytes, 16 virtual
\* columns, 8 columns and 4 rows at (0, 0).
ScenarioSource == [size |-> 100, chunk |-> 16]
ScenarioViewport == create_viewport(16, 100, 7, 4, 0, 0, 0)

\* The sources a Content is built over: one of every size up to the bound
\* that fills every buffer, one that fills one byte per read, and the one of
\* the example.
Sources ==
    {[size |-> n, chunk |-> MaxVirtualColumns] : n \in 0 .. MaxSourceSize}
    \cup {[size |-> MaxSourceSize, chunk |-> 1]}
    \cup {ScenarioSource}

\* The viewports a widget can hand to the application: the default one and
\* those create_viewport builds, at the offsets the scroll axes allow (x up
\* to the virtual columns, y up to the rows of the source).
Viewports ==
    {HexViewport_default} \cup
    {create_viewport(vc, n, cc, rc, x, y, 0) :
        vc \in 1 .. MaxVirtualColumns, n \in 0 .. MaxSourceSize,
        cc \in 0 .. MaxVirtualColumns, rc \in 0 .. MaxRowCountCeil,
        x \in 0 .. MaxVirtualColumns, y \in 0 .. MaxSourceSize}

ContentInit ==
    /\ source \in Sources
    /\ content = Content_new(source, 0)
    /\ c_hist = [op |-> "new", arg |-> HexViewport_default, before |-> content,
                 prev_op |-> "new", prev_arg |-> HexViewport_default]
    /\ c_items = [tag |-> "none", items |-> <<>>]
    /\ AxisIdle
    /\ IxIdle
    /\ IdIdle
    /\ BarIdle
    /\ ViewerIdle

\* The history after one more operation on the content.
Record(op, arg) ==
    [op |-> op, arg |-> arg, before |-> content,
     prev_op |-> c_hist.op, prev_arg |-> c_hist.arg]

\* content.update(viewport); the source of the example is explored with the
\* viewport of the example.
ContentUpdate ==
    /\ \E viewport \in (IF source = ScenarioSource
                        THEN {HexViewport_default, ScenarioViewport}
                        ELSE Viewports) :
        /\ viewport.x <= viewport.virtual_columns
        /\ viewport.y * viewport.virtual_columns <= source.size
        /\ content' = Content_update(content, source, viewport)
        /\ c_hist' = Record("update", viewport)
    /\ c_items' = [tag |-> "none", items |-> <<>>]
    /\ UNCHANGED source
    /\ UNCHANGED <<axisVars, ixVars, viewerVars, idVars, barVars>>

\* content.iter().collect()
ContentIter ==
    /\ c_hist.op = "update"
    /\ c_items' = Content_iter(content)
    /\ c_hist' = Record("iter", c_hist.arg)
    /\ UNCHANGED <<source, content>>
    /\ UNCHANGED <<axisVars, ixVars, viewerVars, idVars, barVars>>

\* HexViewer::draw of a viewer over the content
ContentDraw ==
    /\ c_items' = draw_content_items(content)
    /\ c_hist' = Record("draw", c_hist.arg)
    /\ UNCHANGED <<source, content>>
    /\ UNCHANGED <<axisVars, ixVars, viewerVars, idVars, barVars>>

\* A byte is appended to the source after an update of the content
SourceGrown ==
    /\ source # ScenarioSource
    /\ source.size < MaxSourceSize
    /\ c_hist.op = "update"
    /\ source' = [source EXCEPT !.size = @ + 1]
    /\ c_hist' = Record("grow", c_hist.arg)
    /\ c_items' = [tag |-> "none", items |-> <<>>]
    /\ UNCHANGED content
    /\ UNCHANGED <<axisVars, ixVars, viewerVars, idVars, barVars>>

ContentNext ==
    \/ ContentUpdate
    \/ ContentIter
    \/ ContentDraw
    \/ SourceGrown

SpecContent == ContentInit /\ [][ContentNext]_vars

\* The absolute offset of the cell (column, row) of a viewport.
CellOffset(v, column, row) == (v.y + row) * v.virtual_columns + v.x + column

\* The cells of the stored viewport whose absolute offset lies inside the
\* source, as <<column, row>>.
CellsInSource ==
    {<<column, row>> \in (0 .. content.viewport.columns - 1)
                         \X (0 .. content.viewport.rows - 1) :
        CellOffset(content.viewport, column, row) < content.source_size}

\* C9: after Content::update(v) with virtual_columns > 0, iterating yields in
\* row-major order, each exactly once, precisely the cells of the viewport
\* whose absolute offset is below source_size, each with that offset; in the
\* example (100 bytes, 16 virtual columns, 8 columns, 4 rows at (0, 0)) the
\* offsets are [0,8), [16,24), [32,40) and [48,56).
C9_IterYieldsCellsInSource ==
    (c_hist.op = "iter" /\ c_hist.prev_op = "update"
        /\ content.viewport.virtual_columns > 0) =>
    LET items == c_items.items IN
    /\ c_items.tag = "items"
    /\ {<<items[i].column, items[i].row>> : i \in 1 .. Len(items)} = CellsInSource
    /\ Len(items) = Cardinality(CellsInSource)
    /\ \A i \in 1 .. Len(items) :
        /\ items[i].offset =
               CellOffset(content.viewport, items[i].column, items[i].row)
        /\ items[i].offset < content.source_size
    /\ \A i, j \in 1 .. Len(items) :
        i < j => \/ items[i].row < items[j].row
                 \/ items[i].row = items[j].row /\ items[i].column < items[j].column
    /\ (source = ScenarioSource /\ content.viewport = ScenarioViewport) =>
        /\ content.viewport.columns = 8 /\ content.viewport.rows = 4
        /\ {items[i].offset : i \in 1 .. Len(items)} =
               (0 .. 7) \cup (16 .. 23) \cup (32 .. 39) \cup (48 .. 55)

\* An iteration after an update in which the source ends inside the viewport:
\* some cells are yielded, others lie past the end.
C9_Witness ==
    /\ c_hist.op = "iter" /\ c_hist.prev_op = "update"
    /\ content.viewport.virtual_columns > 0
    /\ content.viewport.x > 0
    /\ content.viewport.rows > 1
    /\ c_items.tag = "items"
    /\ Len(c_items.items) > 0
    /\ Len(c_items.items) < Len(content.data)

\* The example of C9 is iterated.
C9_ScenarioIterated ==
    /\ c_hist.op = "iter" /\ c_hist.prev_op = "update"
    /\ source = ScenarioSource /\ content.viewport = ScenarioViewport
    /\ Len(c_items.items) = 32

\* C38: after Content::update(v) over a source that fills every slice it is
\* asked for, the i-th item (from 0) that Content::iter yields has row
\* i div columns, column i mod columns, the absolute offset
\* (y + row) * virtual_columns + x + column and as value the byte of the source
\* at that offset; the update reads once per row, min(columns, source_size -
\* row offset) bytes at the row's offset, and stops before the first row that
\* lies past the end of the source.
C38_ItemsCarrySourceBytes ==
    (c_hist.op = "iter" /\ c_hist.prev_op = "update"
        /\ content.viewport.virtual_columns > 0
        /\ source.chunk >= content.viewport.columns) =>
    LET v == content.viewport
        items == c_items.items
        requests == Content_update_requests(source, v)
    IN
    /\ c_items.tag = "items"
    /\ \A i \in 1 .. Len(items) :
        /\ items[i].row = (i - 1) \div v.columns
        /\ items[i].column = (i - 1) % v.columns
        /\ items[i].offset =
               (v.y + items[i].row) * v.virtual_columns + v.x + items[i].column
        /\ items[i].value = SourceByte(items[i].offset)
    /\ \A r \in 1 .. Len(requests) :
        /\ CellOffset(v, 0, r - 1) < source.size
        /\ requests[r] = [offset |-> CellOffset(v, 0, r - 1),
                          len |-> Min(v.columns, source.size - CellOffset(v, 0, r - 1))]
    /\ Len(requests) <= v.rows
    /\ Len(requests) < v.rows => CellOffset(v, 0, Len(requests)) >= source.size
    /\ Len(requests) = Content_update_reads(source, v)

\* An iteration after an update that read two rows, the second one cut
\* short by the end of the source: the items end with the source
C38_Witness ==
    /\ c_hist.op = "iter" /\ c_hist.prev_op = "update"
    /\ content.viewport.virtual_columns > 0
    /\ source.chunk >= content.viewport.columns
    /\ Len(Content_update_requests(source, content.viewport)) = 2
    /\ Content_update_requests(source, content.viewport)[2].len < content.viewport.columns
    /\ Len(c_items.items) > content.viewport.columns
    /\ Len(c_items.items) < Len(content.data)

\* C10: Content::update is idempotent over an unchanged source: after two
\* calls in a row with the same viewport, the buffer, the cached source size
\* and the stored viewport are what they were after the first call.
C10_UpdateIdempotent ==
    (c_hist.op = "update" /\ c_hist.prev_op = "update"
        /\ c_hist.arg = c_hist.prev_arg) =>
    /\ content.data = c_hist.before.data
    /\ content.source_size = c_hist.before.source_size
    /\ content.viewport = c_hist.before.viewport

\* Two updates in a row with the same viewport over a source that fills less
\* than a row per read, so that the buffer holds bytes the source did not
\* write.
C10_Witness ==
    /\ c_hist.op = "update" /\ c_hist.prev_op = "update"
    /\ c_hist.arg = c_hist.prev_arg
    /\ content.viewport.virtual_columns > 0
    /\ content.viewport.rows > 1
    /\ source.chunk < content.viewport.columns
    /\ \E i \in 1 .. Len(content.data) : content.data[i] # 0
    /\ \E i \in 1 .. Len(content.data) :
        /\ content_item(content, i - 1).offset < content.source_size
        /\ content.data[i] # SourceByte(content_item(content, i - 1).offset)

PointedCell_in(layout, point) ==
    With(pointer_location(layout, point), LAMBDA location :
    With((content.viewport.y + location.data.cell.row) * viewer.virtual_columns
         + content.viewport.x + location.data.cell.col, LAMBDA offset :
        IF /\ location.kind \in {"ByteArea", "CharArea"}
           /\ location.data.kind = "Cell"
           /\ offset < content.source_size
        THEN Some(Index_new(offset, location.data.cell.side))
        ELSE None))

\* The cell of the data the pointer is on, if it is on one, the viewer
\* having the bounds `bounds`
PointedCell(cursor, bounds) ==
    IF IsSome(position_over(cursor, bounds))
    THEN With(create_layout(viewer, content, cfg.metrics, bounds, 0), LAMBDA layout :
             PointedCell_in(layout, cursor.value))
    ELSE None

\* Whether a press can come within 300 ms of a previous click
FastChoices ==
    IF \/ IsSome(tree.scroll_area_state.x_state.last_click)
       \/ IsSome(tree.scroll_area_state.y_state.last_click)
    THEN cfg.fast ELSE {FALSE}

\* Whether the track timer can be past its target
DueChoices == IF IsSome(tree.track_timer) THEN BOOLEAN ELSE {FALSE}

\* The user and the window after one more event
Later(e) == [e EXCEPT !.events = IF IsSome(cfg.events) THEN @ + 1 ELSE @]

\* One event through Widget::update, the application and the view
Dispatch(event, cursor) ==
    /\ IsSome(cfg.events) => env.events < cfg.events.value
    /\ \E bounds \in {HexViewer_layout(viewer, content, cfg.metrics, cfg.limits)} :
       \E u \in {HexViewer_update(viewer, content, tree, event, bounds, cfg.metrics, cursor,
                                  cfg.window)} :
       \E a \in {HexComponent_update_all(app, content, source, u.out, 1)} :
        /\ tree' = u.state
        /\ out' = u.out
        /\ app' = a.app
        /\ content' = a.content
        /\ viewer' = IF Len(u.out) > 0 THEN HexComponent_view(a.app) ELSE u.hv
        /\ seen' = [type |-> event.type, key |-> event.key,
                    cell |-> PointedCell(cursor, bounds), shift |-> env.shift]
        /\ UNCHANGED <<cfg, source, c_hist, c_items>>
        /\ UNCHANGED <<axisVars, ixVars, idVars, barVars>>

\* The primary button goes down
MousePressed ==
    /\ ~env.button
    /\ \E fast \in FastChoices, due \in DueChoices :
        Dispatch(Event("ButtonPressed", "", FALSE, 0, 0, fast, due), env.cursor)
    /\ env' = Later([env EXCEPT !.button = TRUE])

\* The primary button goes up
MouseReleased ==
    /\ env.button
    /\ \E due \in DueChoices :
        Dispatch(Event("ButtonReleased", "", FALSE, 0, 0, FALSE, due), env.cursor)
    /\ env' = Later([env EXCEPT !.button = FALSE])

\* The pointer moves to another point
MouseMoved ==
    \E p \in cfg.points \ {env.cursor.value}, due \in DueChoices :
        /\ Dispatch(Event("CursorMoved", "", FALSE, 0, 0, FALSE, due), Some(p))
        /\ env' = Later([env EXCEPT !.cursor = Some(p)])

\* A key goes down
KeyPressed ==
    /\ \E key \in cfg.keys, due \in DueChoices :
        Dispatch(Event("KeyPressed", key, env.shift, 0, 0, FALSE, due), env.cursor)
    /\ env' = Later(env)

\* The shift key goes down or up
ModifiersChanged ==
    /\ \E due \in DueChoices :
        Dispatch(Event("ModifiersChanged", "", ~env.shift, 0, 0, FALSE, due), env.cursor)
    /\ env' = Later([env EXCEPT !.shift = ~env.shift])

\* The wheel turns
WheelScrolled ==
    /\ \E d \in cfg.wheel, due \in DueChoices :
        Dispatch(WheelEvent(FALSE, d.x, d.y, due), env.cursor)
    /\ env' = Later(env)

\* The window asks for a redraw
RedrawRequested ==
    /\ \E due \in DueChoices :
        Dispatch(Event("RedrawRequested", "", FALSE, 0, 0, FALSE, due), env.cursor)
    /\ env' = Later(env)

\* What Widget::update gives for the press of a key in the current state, the
\* modifiers those of the keyboard
KeyResult(key) ==
    With(HexViewer_layout(viewer, content, cfg.metrics, cfg.limits), LAMBDA bounds :
        HexViewer_update(viewer, content, tree,
                         Event("KeyPressed", key, env.shift, 0, 0, FALSE, FALSE),
                         bounds, cfg.metrics, env.cursor, cfg.window))

\* What Widget::update gives for a press of the primary button in the
\* current state
PressResult ==
    With(HexViewer_layout(viewer, content, cfg.metrics, cfg.limits), LAMBDA bounds :
        HexViewer_update(viewer, content, tree,
                         Event("ButtonPressed", "", FALSE, 0, 0, FALSE, FALSE),
                         bounds, cfg.metrics, env.cursor, cfg.window))

\* What Widget::update gives for `event` in the current state, the pointer
\* where it is
UpdateResult(event) ==
    With(HexViewer_layout(viewer, content, cfg.metrics, cfg.limits), LAMBDA bounds :
        HexViewer_update(viewer, content, tree, event, bounds, cfg.metrics, env.cursor,
                         cfg.window))

\* The events the user and the window can send next, each with the pointer
\* as it is when the event arrives
NextInputs ==
    {[event |-> Event("ButtonPressed", "", FALSE, 0, 0, fast, due), cursor |-> env.cursor] :
        fast \in IF env.button THEN {} ELSE FastChoices, due \in DueChoices}
    \cup {[event |-> Event("ButtonReleased", "", FALSE, 0, 0, FALSE, due),
           cursor |-> env.cursor] : due \in IF env.button THEN DueChoices ELSE {}}
    \cup {[event |-> Event("CursorMoved", "", FALSE, 0, 0, FALSE, due), cursor |-> Some(p)] :
            p \in cfg.points \ {env.cursor.value}, due \in DueChoices}
    \cup {[event |-> Event("KeyPressed", key, env.shift, 0, 0, FALSE, due),
           cursor |-> env.cursor] : key \in cfg.keys, due \in DueChoices}
    \cup {[event |-> WheelEvent(FALSE, d.x, d.y, due),
           cursor |-> env.cursor] : d \in cfg.wheel, due \in DueChoices}
    \cup {[event |-> Event(type, "", type = "ModifiersChanged" /\ ~env.shift, 0, 0, FALSE, due),
           cursor |-> env.cursor] :
            type \in {"ModifiersChanged", "RedrawRequested"}, due \in DueChoices}

\* Widget::update for the input `in` in the current state, up to the scroll
\* offset it has from handle_scroll_result: gives [checked, offset, viewport],
\* checked the widget after check_state, viewport the one of the offset
ScrollHandled(in) ==
    With(HexViewer_layout(viewer, content, cfg.metrics, cfg.limits), LAMBDA bounds :
    With(check_state([hv |-> viewer, state |-> tree, out |-> <<>>], content, cfg.metrics,
                     bounds), LAMBDA checked :
    With(x_viewport(viewer, content, checked.layout), LAMBDA xv :
    With(y_viewport(content, checked.layout), LAMBDA yv :
    With(ScrollArea_update(viewer.scroll_area, tree.scroll_area_state, in.event,
                           scroll_area_bounds(checked.layout), Some(xv), Some(yv),
                           in.cursor), LAMBDA area :
    With(handle_scroll_result([checked.w.state EXCEPT !.scroll_area_state = area.state],
                              area.result, checked.layout, xv, yv, in.event.due).offset,
         LAMBDA offset :
        [checked |-> checked.w,
         offset |-> offset,
         viewport |-> IF IsSome(offset)
                      THEN Some(create_viewport_from_scroll_offset(
                                    viewer, content, checked.layout, offset.value))
                      ELSE None]))))))

\* Widget::update for the input `in` in the current state
InputResult(in) ==
    With(HexViewer_layout(viewer, content, cfg.metrics, cfg.limits), LAMBDA bounds :
        HexViewer_update(viewer, content, tree, in.event, bounds, cfg.metrics, in.cursor,
                         cfg.window))

\* The fields of State that the handling of the pointer, the keys and the
\* modifiers writes
Interaction(state) ==
    [shift |-> state.shift, focussed |-> state.focussed, dragging |-> state.dragging,
     start_index |-> state.start_index,
     last_reported_selection |-> state.last_reported_selection,
     hovered_column |-> state.hovered_column, hovered_row |-> state.hovered_row]

\* The data cell the pointer is on in the current state, if it is on one
CellUnderPointer ==
    PointedCell(env.cursor, HexViewer_layout(viewer, content, cfg.metrics, cfg.limits))

\* The cursor a movement key moves to in the current state, if it moves
NewCursor(key) ==
    With(HexViewer_layout(viewer, content, cfg.metrics, cfg.limits), LAMBDA bounds :
    With(create_layout(viewer, content, cfg.metrics, bounds, 0), LAMBDA layout :
        maybe_new_cursor(viewer, content, layout, key)))

\* The offsets the cursor-moved messages of a batch carry
CursorsMoved(messages) ==
    {messages[i].cursor : i \in {j \in 1 .. Len(messages) : messages[j].tag = "CursorMoved"}}

\* The selections the selection-changed messages of a batch carry
SelectionsReported(messages) ==
    {messages[i].selection : i \in {j \in 1 .. Len(messages) : messages[j].tag = "Selected"}}

\* The tags of the messages of a batch
Tags(messages) == {messages[i].tag : i \in 1 .. Len(messages)}

(***************************************************************************)
(* The viewer with all of its data in view: selecting by mouse and         *)
(* keyboard                                                                *)
(***************************************************************************)

\* Bounds of the viewer in which selections are made.
SelectSourceSize == 2
SelectColumns == 2

SelectRows == (SelectSourceSize + SelectColumns - 1) \div SelectColumns

SelectLimits == FittingLimits(SelectSourceSize, SelectColumns, SelectRows)

SelectKeys == {"ArrowRight", "Escape"}

\* The points the pointer visits: the halves of the byte cells up to the left
\* half of the last one, and a point outside the viewer
SelectPoints ==
    With(LayoutIn(SelectSourceSize, SelectColumns, SelectLimits), LAMBDA l :
        {p \in CellPoints(l, SelectRows) :
            p.x < byte_cell_x_offset(l, SelectColumns - 1) + l.byte_cell_width \div 2}
        \cup {OutsidePoint(SelectLimits)})

SelectConfig ==
    Config(FontMetrics, SelectLimits, WindowOf(SelectLimits), SelectPoints,
           SelectKeys, {}, BOOLEAN, None)

SelectInit ==
    /\ source = [size |-> SelectSourceSize, chunk |-> SelectSourceSize]
    /\ content = Content_new(source, 0)
    /\ ContentHistoryIdle
    /\ ViewerStart(SelectConfig, SelectColumns)
    /\ AxisIdle
    /\ IxIdle
    /\ IdIdle
    /\ BarIdle

SelectNext ==
    \/ MousePressed
    \/ MouseReleased
    \/ MouseMoved
    \/ KeyPressed
    \/ ModifiersChanged

SpecSelect == SelectInit /\ [][SelectNext]_vars

\* C7: after any sequence of mouse and keyboard events, every
\* selection-changed message that carries a selection has a length of at
\* least 1, and so has the selection the viewer remembers as last reported
\* and the one the application keeps: a selection computed with a length of
\* 0 or less is reported as None.
C7_SelectionsNotEmpty ==
    /\ \A i \in 1 .. Len(out) :
        (out[i].tag = "Selected" /\ out[i].selection.tag = "Some")
            => out[i].selection.length >= 1
    /\ tree.last_reported_selection.tag = "Some" => tree.last_reported_selection.length >= 1
    /\ app.selection.tag = "Some" => app.selection.length >= 1

\* A drag from the right half of one cell to the left half of the next, both
\* halves left out: the selection computed has length 0, and None is
\* reported in place of the selection of before.
C7_Witness ==
    /\ seen.type = "CursorMoved"
    /\ tree.dragging
    /\ tree.start_index = Some(Index_new(0, "Right"))
    /\ seen.cell = Some(Index_new(1, "Left"))
    /\ selection_allow_empty(tree.start_index.value, seen.cell.value, 1).length = 0
    /\ out = <<Message_Selected(NoSelection)>>

\* C17: whenever a selection that was reported is ended by moving the cursor
\* without shift, by a movement key that moves the cursor of the focused
\* viewer or by a press of the primary button on a data cell, a
\* selection-changed message of None is published and the selection the
\* viewer remembers as last reported is None afterwards, so that a later
\* selection of the same value is reported again.
C17_EndedSelectionReportsNone ==
    (~env.shift /\ tree.last_reported_selection # NoSelection) =>
    /\ tree.focussed =>
        \A key \in MovementKeys :
            IsSome(NewCursor(key)) =>
            With(KeyResult(key), LAMBDA u :
                /\ NoSelection \in SelectionsReported(u.out)
                /\ u.state.last_reported_selection = NoSelection)
    /\ (~env.button /\ IsSome(CellUnderPointer)) =>
        With(PressResult, LAMBDA u :
            /\ NoSelection \in SelectionsReported(u.out)
            /\ u.state.last_reported_selection = NoSelection)

\* The keys Widget::update matches and one it ignores
Keys == MovementKeys \cup {"Escape", "Enter"}

\* C18: Escape pressed in the focused viewer clears the anchor and the
\* selection, with a selection-changed message of None if a selection was
\* reported, whatever the modifiers, the drag state and the cursor are; it
\* changes neither the cursor nor the viewport, and publishes no cursor-moved
\* and no viewport message.
C18_EscapeClearsSelection ==
    tree.focussed =>
    With(KeyResult("Escape"), LAMBDA u :
        /\ u.state.start_index = None
        /\ u.state.last_reported_selection = NoSelection
        /\ SelectionsReported(u.out)
                = (IF tree.last_reported_selection = NoSelection THEN {} ELSE {NoSelection})
        /\ Tags(u.out) \subseteq {"Selected"}
        /\ u.hv.cursor = viewer.cursor
        /\ u.state.dragging = tree.dragging
        /\ u.state.last_reported_viewport = tree.last_reported_viewport)

\* Escape with shift held during a drag that had selected both bytes
C18_Witness ==
    /\ seen.type = "KeyPressed" /\ seen.key = "Escape" /\ seen.shift
    /\ tree.focussed /\ tree.dragging
    /\ env.button
    /\ viewer.cursor = 1
    /\ out = <<Message_Selected(NoSelection)>>
    /\ tree.start_index = None
    /\ tree.last_reported_selection = NoSelection

\* C19: while the viewer is not focused a key press, of a movement key or of
\* Escape, publishes no cursor-moved, no selection-changed and no
\* viewport-scrolled message and leaves the cursor, the anchor and the last
\* reported selection as they are; a press of the primary button outside the
\* viewer and inside the window clears the focus.
C19_KeysNeedFocus ==
    /\ ~tree.focussed =>
        \A key \in Keys :
            With(KeyResult(key), LAMBDA u :
                /\ Tags(u.out) \cap {"CursorMoved", "Selected", "Scrolled"} = {}
                /\ u.hv.cursor = viewer.cursor
                /\ u.state.start_index = tree.start_index
                /\ u.state.last_reported_selection = tree.last_reported_selection)
    /\ (/\ ~env.button
        /\ ~Rectangle_contains(HexViewer_layout(viewer, content, cfg.metrics, cfg.limits),
                               env.cursor.value)
        /\ Rectangle_contains(cfg.window, env.cursor.value)) =>
        ~PressResult.state.focussed

\* A key was pressed after a press beside the viewer had taken the focus
\* from it, a selection being reported: nothing was published and the
\* selection is still there.
C19_Witness ==
    /\ seen.type = "KeyPressed" /\ seen.key \in MovementKeys \cup {"Escape"}
    /\ ~tree.focussed
    /\ env.cursor = Some(OutsidePoint(cfg.limits))
    /\ IsSome(tree.start_index)
    /\ tree.last_reported_selection # NoSelection
    /\ app.selection = tree.last_reported_selection
    /\ out = <<>>

\* What a press of the primary button on a data cell is to do, the anchor
\* after a press without shift being `plain_anchor` of the index clicked
PressOnCell(plain_anchor(_)) ==
    (~env.button /\ IsSome(CellUnderPointer)) =>
    With(CellUnderPointer.value, LAMBDA clicked :
    With(PressResult, LAMBDA u :
        IF env.shift
        THEN With(IF IsSome(tree.start_index) THEN tree.start_index.value
                  ELSE Index_new(viewer.cursor, "None"), LAMBDA anchor :
             With(selection(anchor, clicked, clicked.offset), LAMBDA sel :
                /\ u.hv.cursor = viewer.cursor
                /\ CursorsMoved(u.out) = {}
                /\ u.state.start_index = Some(anchor)
                /\ u.state.last_reported_selection = sel
                /\ SelectionsReported(u.out)
                        = (IF sel = tree.last_reported_selection THEN {} ELSE {sel})
                /\ u.state.dragging))
        ELSE /\ u.hv.cursor = clicked.offset
             /\ CursorsMoved(u.out)
                    = (IF clicked.offset = viewer.cursor THEN {} ELSE {clicked.offset})
             /\ u.state.start_index = plain_anchor(clicked)
             /\ u.state.dragging))

\* C20 as stated: a press of the primary button on a data cell without shift
\* sets the cursor to the offset clicked, with a cursor-moved message when it
\* differs from the cursor, clears the anchor and sets dragging; with shift
\* held it keeps the cursor, uses the anchor there is or sets it to
\* Index{cursor, None}, reports selection(anchor, index clicked) and sets
\* dragging.
C20_PressClearsAnchor == PressOnCell(LAMBDA clicked : None)

\* C20, amended: as above, but the press without shift makes the index
\* clicked, the offset and the half of the cell, the anchor.
C20_PressSetsAnchor == PressOnCell(LAMBDA clicked : Some(clicked))

\* A press without shift on the left half of the second byte, the cursor
\* being on the first
C20_Witness ==
    /\ seen.type = "ButtonPressed" /\ ~seen.shift
    /\ seen.cell = Some(Index_new(1, "Left"))
    /\ out = <<Message_CursorMoved(1)>>
    /\ viewer.cursor = 1
    /\ tree.start_index = Some(Index_new(1, "Left"))
    /\ tree.dragging

(***************************************************************************)
(* The viewer with more rows than fit: scrolling by the scrollbars and the *)
(* wheel, and selecting by mouse                                           *)
(***************************************************************************)

\* Bounds of the viewer that scrolls, and of the sessions with it: a session
\* is followed for ScrollMaxEvents events.
ScrollSourceSize == 2
ScrollColumns == 1
ScrollRows == 1
ScrollMaxEvents == 8

ScrollLimits == FittingLimits(ScrollSourceSize, ScrollColumns, ScrollRows)

ScrollLayout == LayoutIn(ScrollSourceSize, ScrollColumns, ScrollLimits)

\* The wheel turns one line up or down
ScrollWheel == {[x |-> 0, y |-> 1], [x |-> 0, y |-> -1]}

ScrollConfig ==
    Config(FontMetrics, ScrollLimits, WindowOf(ScrollLimits),
           CellPoints(ScrollLayout, ScrollRows) \cup VerticalBarPoints(ScrollLayout)
               \cup HorizontalBarPoints(ScrollLayout),
           {}, ScrollWheel, {FALSE}, Some(ScrollMaxEvents))

ScrollInit ==
    /\ source = [size |-> ScrollSourceSize, chunk |-> ScrollSourceSize]
    /\ content = Content_new(source, 0)
    /\ ContentHistoryIdle
    /\ ViewerStart(ScrollConfig, ScrollColumns)
    /\ AxisIdle
    /\ IxIdle
    /\ IdIdle
    /\ BarIdle

ScrollNext ==
    \/ MousePressed
    \/ MouseReleased
    \/ MouseMoved
    \/ WheelScrolled
    \/ RedrawRequested

SpecScroll == ScrollInit /\ [][ScrollNext]_vars

\* C8: a press of the primary button without shift on the left half of the
\* data cell at offset k, followed by a move of the pointer to the right half
\* of the same cell with the button still held, leaves {offset: k, length: 1}
\* as the selection the viewer has reported.
C8_PressThenMoveSelectsCell ==
    [][ (/\ seen.type = "ButtonPressed"
         /\ ~seen.shift
         /\ IsSome(seen.cell)
         /\ seen.cell.value.side = "Left"
         /\ seen'.type = "CursorMoved"
         /\ seen'.cell = Some(Index_new(seen.cell.value.offset, "Right")))
        => (/\ tree'.last_reported_selection.tag = "Some"
            /\ tree'.last_reported_selection.offset = seen.cell.value.offset
            /\ tree'.last_reported_selection.length = 1) ]_vars

\* C21: a release of the primary button, wherever the pointer is and
\* whatever the scrollbars hold (one grabbed, one left grabbed by an earlier
\* release, the track timer due or not), gives no scroll offset, leaves
\* dragging false and leaves the selection anchor as it was.
C21_ReleaseEndsDrag ==
    \A due \in DueChoices :
        With(UpdateResult(Event("ButtonReleased", "", FALSE, 0, 0, FALSE, due)), LAMBDA u :
            /\ ~u.state.dragging
            /\ u.state.start_index = tree.start_index
            /\ "Scrolled" \notin Tags(u.out))

\* A release with the pointer on the vertical scrollbar, after a drag that
\* began on a cell: the anchor is still there
C21_Witness ==
    /\ seen.type = "ButtonReleased"
    /\ env.cursor.value \in VerticalBarPoints(ScrollLayout)
    /\ IsSome(tree.start_index)
    /\ ~tree.dragging

\* The two scrollbars of the viewer, each with its State and with the bounds
\* and the viewport ScrollArea::update hands it
Engines ==
    With(scroll_area_bounds(ScrollLayout), LAMBDA bounds :
    {[sb |-> viewer.scroll_area.x_scrollbar.value,
      state |-> tree.scroll_area_state.x_state,
      bounds |-> x_bounds(bounds, viewer.scroll_area),
      viewport |-> x_viewport(viewer, content, ScrollLayout)],
     [sb |-> viewer.scroll_area.y_scrollbar.value,
      state |-> tree.scroll_area_state.y_state,
      bounds |-> y_bounds(bounds, viewer.scroll_area),
      viewport |-> y_viewport(content, ScrollLayout)]})

\* The events that end a press: the release of the primary button, a finger
\* lifted and a finger lost
ReleaseEvents ==
    {Event(type, "", FALSE, 0, 0, FALSE, FALSE) :
        type \in {"ButtonReleased", "FingerLifted", "FingerLost"}}

\* The places of the pointer: not in the window, on a cell, on a scrollbar,
\* beside the viewer
Pointers == {None} \cup {Some(p) : p \in cfg.points \cup {OutsidePoint(cfg.limits)}}

\* C30: the update of a scrollbar with a release of the primary button, a
\* finger lifted or a finger lost leaves last_region None and last_click as
\* it was, for its own bounds and those of the other scrollbar, for every
\* place of the pointer, with a viewport supplied and with none.
C30_ReleaseClearsRegion ==
    \A e \in Engines, other \in Engines, event \in ReleaseEvents, cursor \in Pointers :
        \A scroll_state \in {None, Some(e.viewport)} :
            Scrollbar_update(e.sb, e.state, event, other.bounds, scroll_state, cursor).state
                = [last_region |-> None, last_click |-> e.state.last_click]

\* The thumb of the vertical scrollbar is grabbed, by a press that was a
\* click: the release has a region to clear and a click to keep
C30_Witness ==
    /\ IsSome(tree.scroll_area_state.y_state.last_region)
    /\ tree.scroll_area_state.y_state.last_region.value.kind = "Thumb"
    /\ IsSome(tree.scroll_area_state.y_state.last_click)
    /\ env.button

\* C31: after a release of the primary button has gone through
\* ScrollArea::update, wherever the pointer is and whatever the two
\* scrollbars held, both scrollbar states have last_region None.
C31_ReleaseClearsBothRegions ==
    \A due \in DueChoices :
        With(UpdateResult(Event("ButtonReleased", "", FALSE, 0, 0, FALSE, due)), LAMBDA u :
            /\ u.state.scroll_area_state.x_state.last_region = None
            /\ u.state.scroll_area_state.y_state.last_region = None)

(***************************************************************************)
(* The viewer under the keyboard: the movement keys, with and without      *)
(* shift, over a source of more rows than fit                              *)
(***************************************************************************)

\* Bounds of the viewer that is navigated: the bytes of the source, the
\* columns, and the rows that fit.
NavigateSourceSize == 6
NavigateColumns == 2
NavigateRows == 2

\* The example of the keyboard: 100 bytes in 16 columns, every row in view
Example == [source_size |-> 100, columns |-> 16, rows |-> 7]

\* The middle of the left half of the first byte cell in view
FirstCellPoint(l) ==
    Point_new(byte_cell_x_offset(l, 0) + l.byte_cell_width \div 4,
              cell_y_offset(l, 0) + row_height(l) \div 2)

\* A viewer of `columns` columns over `source_size` bytes of which `rows`
\* rows fit, a pointer that visits the first cell, and every movement key
NavigateConfig(source_size, columns, rows) ==
    With(FittingLimits(source_size, columns, rows), LAMBDA limits :
        Config(FontMetrics, limits, WindowOf(limits),
               {FirstCellPoint(LayoutIn(source_size, columns, limits))},
               MovementKeys, {}, {FALSE}, None))

NavigateInit ==
    /\ \/ /\ source = [size |-> NavigateSourceSize, chunk |-> NavigateSourceSize]
          /\ ViewerStart(NavigateConfig(NavigateSourceSize, NavigateColumns, NavigateRows),
                         NavigateColumns)
       \/ /\ source = [size |-> Example.source_size, chunk |-> Example.source_size]
          /\ ViewerStart(NavigateConfig(Example.source_size, Example.columns, Example.rows),
                         Example.columns)
    /\ content = Content_new(source, 0)
    /\ ContentHistoryIdle
    /\ AxisIdle
    /\ IxIdle
    /\ IdIdle
    /\ BarIdle

\* The shift key goes down or up; the example is followed without it
NavigateShift ==
    /\ source.size = NavigateSourceSize
    /\ ModifiersChanged

NavigateNext ==
    \/ MousePressed
    \/ MouseReleased
    \/ MouseMoved
    \/ KeyPressed
    \/ NavigateShift

SpecNavigate == NavigateInit /\ [][NavigateNext]_vars

\* The keys that move the cursor towards the start, and those towards the end
BackwardKeys == {"ArrowLeft", "ArrowUp", "PageUp", "Home"}
ForwardKeys == {"ArrowRight", "ArrowDown", "PageDown", "End"}

\* The rows that are fully visible in the viewer that is navigated
VisibleRows == IF source.size = Example.source_size THEN Example.rows ELSE NavigateRows

\* C12: navigation past a boundary is a no-op: in a focused viewer with the
\* cursor at 0, ArrowLeft, ArrowUp, PageUp and Home compute no movement, and
\* with the cursor at source_size - 1, ArrowRight, ArrowDown, PageDown and
\* End compute none; the press leaves the cursor where it is and publishes
\* no cursor-moved message.
C12_BoundaryKeysDoNothing ==
    tree.focussed =>
    \A key \in MovementKeys :
        (\/ viewer.cursor = 0 /\ key \in BackwardKeys
         \/ viewer.cursor = source.size - 1 /\ key \in ForwardKeys) =>
        /\ NewCursor(key) = None
        /\ With(KeyResult(key), LAMBDA u :
              /\ u.hv.cursor = viewer.cursor
              /\ CursorsMoved(u.out) = {})

\* ArrowDown without shift was pressed in the focused viewer with the cursor
\* on the last byte and nothing selected: nothing was published.
C12_Witness ==
    /\ seen.type = "KeyPressed" /\ seen.key = "ArrowDown" /\ ~seen.shift
    /\ tree.focussed
    /\ source.size = NavigateSourceSize
    /\ viewer.cursor = source.size - 1
    /\ out = <<>>

\* The cursor a vertical key is to move to from the cursor c
VerticalTarget(key, c) ==
    CASE key = "ArrowDown" -> Min(c + viewer.virtual_columns, source.size - 1)
      [] key = "ArrowUp" -> Max(c - viewer.virtual_columns, 0)
      [] key = "PageDown" -> Min(c + viewer.virtual_columns * VisibleRows, source.size - 1)
      [] key = "PageUp" -> Max(c - viewer.virtual_columns * VisibleRows, 0)

\* C13: a key press without shift in a focused viewer with the cursor c in
\* [0, source_size): whenever the move is legal, ArrowDown moves the cursor
\* to min(c + virtual_columns, source_size - 1), ArrowUp to
\* max(c - virtual_columns, 0), PageDown and PageUp the same with
\* virtual_columns times the number of fully visible rows, and the
\* cursor-moved message carries exactly that offset; with the cursor at 50 of
\* 100 bytes in 16 columns ArrowDown gives 66.
C13_VerticalMoves ==
    (tree.focussed /\ ~env.shift /\ viewer.cursor \in 0 .. source.size - 1) =>
    /\ \A key \in {"ArrowDown", "ArrowUp", "PageDown", "PageUp"} :
        (IF key \in ForwardKeys THEN viewer.cursor + 1 < source.size
                                ELSE viewer.cursor > 0) =>
        With(KeyResult(key), LAMBDA u :
            /\ u.hv.cursor = VerticalTarget(key, viewer.cursor)
            /\ CursorsMoved(u.out) = {VerticalTarget(key, viewer.cursor)})
    /\ (source.size = 100 /\ viewer.virtual_columns = 16 /\ viewer.cursor = 50) =>
        CursorsMoved(KeyResult("ArrowDown").out) = {66}

\* The example: ArrowDown was pressed with the cursor at 50 of 100 bytes in
\* 16 columns, and the cursor is at 66.
C13_Witness ==
    /\ seen.type = "KeyPressed" /\ seen.key = "ArrowDown" /\ ~seen.shift
    /\ source.size = 100 /\ viewer.virtual_columns = 16
    /\ out = <<Message_CursorMoved(66)>>
    /\ viewer.cursor = 66

\* C15: a movement key with shift held in a focused viewer, the move from
\* the cursor c to c' being legal: the anchor is the stored one if there is
\* one and Index{c, None} otherwise, it is the stored anchor afterwards, the
\* selection reported is selection(anchor, Index{c', None}, c'), and the
\* cursor of the widget is c'.
C15_ShiftKeyExtendsSelection ==
    (tree.focussed /\ env.shift) =>
    \A key \in MovementKeys :
        IsSome(NewCursor(key)) =>
        With(NewCursor(key).value, LAMBDA new_cursor :
        With(IF IsSome(tree.start_index) THEN tree.start_index.value
             ELSE Index_new(viewer.cursor, "None"), LAMBDA anchor :
        With(selection(anchor, Index_new(new_cursor, "None"), new_cursor), LAMBDA sel :
        With(KeyResult(key), LAMBDA u :
            /\ u.state.start_index = Some(anchor)
            /\ u.state.last_reported_selection = sel
            /\ SelectionsReported(u.out)
                    = (IF sel = tree.last_reported_selection THEN {} ELSE {sel})
            /\ u.hv.cursor = new_cursor))))

\* Shift and ArrowDown with the cursor at 2 and no anchor: the anchor is
\* Index{2, None} and the bytes 2 to 4 are selected.
C15_Witness ==
    /\ seen.type = "KeyPressed" /\ seen.key = "ArrowDown" /\ seen.shift
    /\ source.size = NavigateSourceSize
    /\ tree.start_index = Some(Index_new(2, "None"))
    /\ Message_Selected(Selection_new(2, 3, 4)) \in {out[i] : i \in 1 .. Len(out)}
    /\ viewer.cursor = 4

\* C16: a movement key in a focused viewer whose cursor cannot move that
\* way: without shift the anchor is cleared, a selection that was reported is
\* cleared by a selection-changed message of None, and the cursor stays; with
\* shift held the anchor and the reported selection stay as they are.
C16_BoundaryKeyClearsSelection ==
    tree.focussed =>
    \A key \in MovementKeys :
        ~IsSome(NewCursor(key)) =>
        With(KeyResult(key), LAMBDA u :
            IF env.shift
            THEN /\ u.state.start_index = tree.start_index
                 /\ u.state.last_reported_selection = tree.last_reported_selection
                 /\ SelectionsReported(u.out) = {}
            ELSE /\ u.state.start_index = None
                 /\ u.state.last_reported_selection = NoSelection
                 /\ SelectionsReported(u.out)
                        = (IF tree.last_reported_selection = NoSelection
                           THEN {} ELSE {NoSelection})
                 /\ u.hv.cursor = viewer.cursor
                 /\ CursorsMoved(u.out) = {})

\* A movement key without shift at the boundary ended the selection there was.
C16_Witness ==
    /\ seen.type = "KeyPressed" /\ seen.key \in MovementKeys /\ ~seen.shift
    /\ tree.focussed
    /\ out = <<Message_Selected(NoSelection)>>
    /\ tree.start_index = None
    /\ tree.last_reported_selection = NoSelection
    /\ app.selection = NoSelection

(***************************************************************************)
(* The viewer over sources of every small size, the empty one included:    *)
(* clicks on cells, on cells past the end of the data and on the padding,  *)
(* and the movement keys                                                   *)
(***************************************************************************)

\* Bounds of the viewer whose cursor is followed: the sources have up to
\* CursorSourceSize bytes.
CursorSourceSize == 2
CursorColumns == 2
CursorRows == 2

\* The left half of the first cell, the right half of the last cell of the
\* first and of the last row that fits, and a point of the padding below the
\* cells
CursorPoints(l) ==
    { Point_new(byte_cell_x_offset(l, 0) + l.byte_cell_width \div 4,
                cell_y_offset(l, 0) + row_height(l) \div 2),
      Point_new(byte_cell_x_offset(l, CursorColumns - 1) + (3 * l.byte_cell_width) \div 4,
                cell_y_offset(l, 0) + row_height(l) \div 2),
      Point_new(byte_cell_x_offset(l, CursorColumns - 1) + (3 * l.byte_cell_width) \div 4,
                cell_y_offset(l, CursorRows - 1) + row_height(l) \div 2),
      Point_new(byte_cell_x_offset(l, 0) + l.byte_cell_width \div 4,
                l.byte_area.y + l.byte_area.height - 1) }

CursorConfig(source_size) ==
    With(FittingLimits(source_size, CursorColumns, CursorRows), LAMBDA limits :
        Config(FontMetrics, limits, WindowOf(limits),
               CursorPoints(LayoutIn(source_size, CursorColumns, limits)),
               MovementKeys, {}, {FALSE}, None))

CursorInit ==
    /\ \E n \in 0 .. CursorSourceSize :
        /\ source = [size |-> n, chunk |-> CursorColumns]
        /\ ViewerStart(CursorConfig(n), CursorColumns)
    /\ content = Content_new(source, 0)
    /\ ContentHistoryIdle
    /\ AxisIdle
    /\ IxIdle
    /\ IdIdle
    /\ BarIdle

CursorNext ==
    \/ MousePressed
    \/ MouseReleased
    \/ MouseMoved
    \/ KeyPressed
    \/ ModifiersChanged

SpecCursor == CursorInit /\ [][CursorNext]_vars

\* C14: from a cursor inside [0, source_size), after any sequence of key
\* presses and of clicks on cells, on the padding and on cells past the end
\* of the data, every cursor-moved message carries an offset inside
\* [0, source_size), whatever the size of the source is, 0 and 1 included.
C14_CursorMovedInRange ==
    HexComponent_new(CursorColumns).cursor \in 0 .. source.size - 1 =>
    \A i \in 1 .. Len(out) :
        out[i].tag = "CursorMoved" => out[i].cursor \in 0 .. source.size - 1

(***************************************************************************)
(* The viewer when events come in batches: the window hands every event of *)
(* a batch to Widget::update, and the application handles the messages of  *)
(* the batch, and rebuilds the viewer, after the last of them              *)
(***************************************************************************)

\* Bounds of the viewer that is given batches: the bytes of the source, the
\* columns, the rows that fit, and the events of a session.
BatchSourceSize == 3
BatchColumns == 1
BatchRows == 1
BatchMaxEvents == 5

BatchLimits == FittingLimits(BatchSourceSize, BatchColumns, BatchRows)

BatchLayout == LayoutIn(BatchSourceSize, BatchColumns, BatchLimits)

\* The wheel turns one line up, or one or two lines down
BatchWheel == {[x |-> 0, y |-> 1], [x |-> 0, y |-> -1], [x |-> 0, y |-> -2]}

BatchConfig ==
    Config(FontMetrics, BatchLimits, WindowOf(BatchLimits),
           {FirstCellPoint(BatchLayout)} \cup VerticalBarPoints(BatchLayout),
           {}, BatchWheel, {FALSE}, Some(BatchMaxEvents))

BatchInit ==
    /\ source = [size |-> BatchSourceSize, chunk |-> BatchSourceSize]
    /\ content = Content_new(source, 0)
    /\ ContentHistoryIdle
    /\ ViewerStart(BatchConfig, BatchColumns)
    /\ AxisIdle
    /\ IxIdle
    /\ IdIdle
    /\ BarIdle

\* One event of a batch through Widget::update: its messages wait in `out`
\* for the application
Deliver(event, cursor) ==
    /\ env.events < cfg.events.value
    /\ \E bounds \in {HexViewer_layout(viewer, content, cfg.metrics, cfg.limits)} :
       \E u \in {HexViewer_update(viewer, content, tree, event, bounds, cfg.metrics, cursor,
                                  cfg.window)} :
        /\ tree' = u.state
        /\ viewer' = u.hv
        /\ out' = out \o u.out
        /\ seen' = [type |-> event.type, key |-> event.key,
                    cell |-> PointedCell(cursor, bounds), shift |-> env.shift]
        /\ UNCHANGED <<cfg, app, source, content, c_hist, c_items>>
        /\ UNCHANGED <<axisVars, ixVars, idVars, barVars>>

\* The primary button goes down
BatchPressed ==
    /\ ~env.button
    /\ \E fast \in FastChoices, due \in DueChoices :
        Deliver(Event("ButtonPressed", "", FALSE, 0, 0, fast, due), env.cursor)
    /\ env' = Later([env EXCEPT !.button = TRUE])

\* The primary button goes up
BatchReleased ==
    /\ env.button
    /\ \E due \in DueChoices :
        Deliver(Event("ButtonReleased", "", FALSE, 0, 0, FALSE, due), env.cursor)
    /\ env' = Later([env EXCEPT !.button = FALSE])

\* The pointer moves to another point
BatchMoved ==
    \E p \in cfg.points \ {env.cursor.value}, due \in DueChoices :
        /\ Deliver(Event("CursorMoved", "", FALSE, 0, 0, FALSE, due), Some(p))
        /\ env' = Later([env EXCEPT !.cursor = Some(p)])

\* The wheel turns
BatchWheelScrolled ==
    /\ \E d \in cfg.wheel, due \in DueChoices :
        Deliver(WheelEvent(FALSE, d.x, d.y, due), env.cursor)
    /\ env' = Later(env)

\* The batch ends: the application handles its messages and builds the
\* viewer anew
BatchEnd ==
    /\ out # <<>>
    /\ \E a \in {HexComponent_update_all(app, content, source, out, 1)} :
        /\ app' = a.app
        /\ content' = a.content
        /\ viewer' = HexComponent_view(a.app)
    /\ out' = <<>>
    /\ UNCHANGED <<cfg, source, c_hist, c_items, tree, env, seen>>
    /\ UNCHANGED <<axisVars, ixVars, idVars, barVars>>

BatchNext ==
    \/ BatchPressed
    \/ BatchReleased
    \/ BatchMoved
    \/ BatchWheelScrolled
    \/ BatchEnd

SpecBatch == BatchInit /\ [][BatchNext]_vars

\* Whether the update for the input `in` did none of the handling of the
\* cursor, the selection, the focus, the hover and the modifiers
ScrollOnly(in) ==
    With(InputResult(in), LAMBDA u :
        /\ Interaction(u.state) = Interaction(tree)
        /\ u.hv.cursor = viewer.cursor
        /\ Tags(u.out) \subseteq {"Scrolled", "LogicalViewportSizeChanged"})

\* C22 as stated: an event for which the scroll area's result yields a
\* scroll offset makes the widget emit viewport-scrolled and gets no cursor,
\* selection, focus, hover or modifier handling.
C22_ScrollOffsetIsEmitted ==
    \A in \in NextInputs :
        IsSome(ScrollHandled(in).offset) =>
            /\ "Scrolled" \in Tags(InputResult(in).out)
            /\ ScrollOnly(in)

\* C22: an event for which the scroll area's result yields a scroll offset
\* gets no cursor, selection, focus, hover or modifier handling, and the
\* widget emits viewport-scrolled for it exactly when the viewport of that
\* offset is neither the Content's viewport nor the viewport last reported
\* for that Content.
C22_ScrollTakesPrecedence ==
    \A in \in NextInputs :
        With(ScrollHandled(in), LAMBDA h :
            IsSome(h.offset) =>
                /\ ScrollOnly(in)
                /\ "Scrolled" \in Tags(InputResult(in).out)
                    <=> /\ h.viewport.value # content.viewport
                        /\ Some([viewport |-> h.viewport.value, id |-> content.id])
                               # h.checked.state.last_reported_viewport)

\* A press on the track of a scrollbar scrolled the viewport and did not
\* give the viewer the focus
C22_Witness ==
    /\ seen.type = "ButtonPressed"
    /\ env.cursor.value \in VerticalBarPoints(BatchLayout)
    /\ out # <<>>
    /\ out[Len(out)].tag = "Scrolled"
    /\ ~tree.focussed

\* The places in a batch of the messages that carry a viewport
ViewportMessages(messages) ==
    {i \in 1 .. Len(messages) :
        messages[i].tag \in {"Scrolled", "LogicalViewportSizeChanged"}}

\* C23: of the viewport-scrolled and logical-viewport-size-changed messages
\* published since the Content was last updated, no two carry the same
\* viewport.
C23_ViewportEmittedOnce ==
    \A i, j \in ViewportMessages(out) : i < j => out[i].viewport # out[j].viewport

(***************************************************************************)
(* The messages of one update, over the viewer under the keyboard          *)
(* (SpecNavigate)                                                          *)
(***************************************************************************)

\* How many messages of a batch have the tag `tag`
Count(messages, tag) ==
    Cardinality({i \in 1 .. Len(messages) : messages[i].tag = tag})

MaxWheelDelta == 3

\* The bounds of the scroll area and a pointer over it
WheelArea == [bounds |-> Rectangle_new(0, 0, 100, 100), cursor |-> Some(Point_new(50, 50))]

WheelInit ==
    /\ axis \in AxisStates
    /\ axis_prev = axis
    /\ axis_op = "new"
    /\ axis_res = 0
    /\ IxIdle
    /\ IdIdle
    /\ BarIdle
    /\ ContentIdle
    /\ ViewerIdle

\* ScrollArea::update for a wheel event of `d` vertically; the owner of the
\* viewport takes the offset of a WheelScroll result
WheelTurned(pixels, d) ==
    \E u \in {ScrollArea_update(ScrollArea_new, ScrollAreaState_default,
                                WheelEvent(pixels, 0, d, FALSE), WheelArea.bounds, None,
                                Some(axis), WheelArea.cursor)} :
        /\ axis' = [axis EXCEPT !.offset = IF u.result.tag = "WheelScroll"
                                           THEN u.result.y ELSE @]
        /\ axis_prev' = axis
        /\ axis_res' = d
        /\ UNCHANGED <<ixVars, contentVars, viewerVars, idVars, barVars>>

\* The wheel turns by lines
WheelLines ==
    /\ \E d \in (0 - MaxWheelDelta) .. MaxWheelDelta : WheelTurned(FALSE, d)
    /\ axis_op' = "lines"

\* The wheel, or a touch screen, scrolls by pixels
WheelPixels ==
    /\ \E d \in (0 - MaxWheelDelta) .. MaxWheelDelta : WheelTurned(TRUE, d)
    /\ axis_op' = "pixels"

WheelNext ==
    \/ WheelLines
    \/ WheelPixels

SpecWheel == WheelInit /\ [][WheelNext]_vars

\* C25: a wheel delta over the scroll area, in lines or in pixels, applied
\* to an axis whose offset is within [0, virtual_max_offset]: a negative
\* delta does not decrease the offset and increases it when it is below the
\* maximum, a positive delta does not increase it, a pixel delta p other
\* than 0 moves by max(1, |p| / step_size) steps as far as the range allows,
\* and the offset stays within [0, virtual_max_offset].
C25_WheelMovesAgainstDelta ==
    (/\ axis_op \in {"lines", "pixels"}
     /\ InRange(axis_prev.offset, 0, virtual_max_offset(axis_prev)))
    => /\ axis_res < 0 => /\ axis.offset >= axis_prev.offset
                          /\ axis_prev.offset < virtual_max_offset(axis_prev)
                                => axis.offset > axis_prev.offset
       /\ axis_res > 0 => axis.offset <= axis_prev.offset
       /\ (axis_op = "pixels" /\ axis_res > 0)
            => axis.offset = Max(0, axis_prev.offset
                                       - Max(1, axis_res \div axis_prev.step_size))
       /\ (axis_op = "pixels" /\ axis_res < 0)
            => axis.offset = Min(virtual_max_offset(axis_prev),
                                 axis_prev.offset
                                     + Max(1, (0 - axis_res) \div axis_prev.step_size))
       /\ InRange(axis.offset, 0, virtual_max_offset(axis_prev))

(***************************************************************************)
(* The viewer that follows its cursor: the movement keys over a source of  *)
(* more rows and more columns than fit, with each Navigation               *)
(***************************************************************************)

\* Bounds of the viewer that follows its cursor: the bytes of the source,
\* the columns, the columns for which there is room, and the rows that fit.
AlignSourceSize == 9
AlignColumns == 3
AlignRoom == 2
AlignRows == 1

\* Navigation::Lazy and Navigation::Aligned(alignment)
Navigations == {"Lazy", "Start", "Center", "End"}

\* The space in which `rows` rows fit and that is as wide as a viewer of
\* `room` columns asks for
NarrowLimits(source_size, columns, room, rows) ==
    [width |-> FittingLimits(source_size, room, rows).width,
     height |-> FittingLimits(source_size, columns, rows).height]

AlignLimits == NarrowLimits(AlignSourceSize, AlignColumns, AlignRoom, AlignRows)

AlignConfig ==
    Config(FontMetrics, AlignLimits, WindowOf(AlignLimits),
           {FirstCellPoint(LayoutIn(AlignSourceSize, AlignColumns, AlignLimits))},
           MovementKeys, {}, {FALSE}, None)

AlignInit ==
    /\ source = [size |-> AlignSourceSize, chunk |-> AlignSourceSize]
    /\ content = Content_new(source, 0)
    /\ ContentHistoryIdle
    /\ cfg = AlignConfig
    /\ \E horizontal \in Navigations, vertical \in Navigations :
        app = set_navigation(HexComponent_new(AlignColumns), horizontal, vertical)
    /\ viewer = HexComponent_view(app)
    /\ tree = State_new
    /\ env = [cursor |-> Some(OutsidePoint(cfg.limits)), button |-> FALSE, shift |-> FALSE,
              events |-> 0]
    /\ seen = NoEvent
    /\ out = <<>>
    /\ AxisIdle
    /\ IxIdle
    /\ IdIdle
    /\ BarIdle

AlignNext ==
    \/ MousePressed
    \/ MouseReleased
    \/ MouseMoved
    \/ KeyPressed

SpecAlign == AlignInit /\ [][AlignNext]_vars

\* The layout Widget::update works with in the current state
UpdateLayout ==
    create_layout(viewer, content, cfg.metrics,
                  HexViewer_layout(viewer, content, cfg.metrics, cfg.limits), 0)

\* The viewport a batch of messages asks for with viewport-scrolled, or the
\* Content's viewport if it asks for none
RequestedViewport(messages) ==
    IF \E i \in 1 .. Len(messages) : messages[i].tag = "Scrolled"
    THEN messages[CHOOSE i \in 1 .. Len(messages) : messages[i].tag = "Scrolled"].viewport
    ELSE content.viewport

\* C26: a key that moves the cursor of the focused viewer to a target whose
\* column is fully inside the viewport leaves the horizontal offset as it is
\* if the horizontal navigation is Lazy, and likewise the row and the
\* vertical offset; with both Lazy and the target fully inside on both axes
\* no viewport-scrolled is published.
C26_LazyKeepsVisibleTarget ==
    \A key \in MovementKeys :
        (tree.focussed /\ IsSome(NewCursor(key))) =>
            With(KeyResult(key).out, LAMBDA messages :
            With(NewCursor(key).value % viewer.virtual_columns, LAMBDA column :
            With(NewCursor(key).value \div viewer.virtual_columns, LAMBDA row :
            With(viewer.horizontal_navigation = "Lazy"
                 /\ column_fully_in_viewport(content, column, UpdateLayout), LAMBDA keep_x :
            With(viewer.vertical_navigation = "Lazy"
                 /\ row_fully_in_viewport(content, row, UpdateLayout), LAMBDA keep_y :
                /\ keep_x => RequestedViewport(messages).x = content.viewport.x
                /\ keep_y => RequestedViewport(messages).y = content.viewport.y
                /\ (keep_x /\ keep_y) => "Scrolled" \notin Tags(messages))))))

\* With Lazy navigation on both axes, a key moved the cursor inside a
\* viewport that had been scrolled to the right, and nothing was scrolled
C26_Witness ==
    /\ seen.type = "KeyPressed"
    /\ viewer.horizontal_navigation = "Lazy"
    /\ viewer.vertical_navigation = "Lazy"
    /\ Tags(out) = {"CursorMoved"}
    /\ content.viewport.x > 0
    /\ column_fully_in_viewport(content, viewer.cursor % viewer.virtual_columns, UpdateLayout)
    /\ row_fully_in_viewport(content, viewer.cursor \div viewer.virtual_columns, UpdateLayout)

\* C27: a key that moves the cursor of the focused viewer, when at least one
\* full row and one full column fit, makes the viewer ask for a viewport (or
\* leaves it with one) that has the row of the new cursor among its rows and
\* its column among its columns, whatever the Navigation of either axis.
C27_ViewportFollowsCursor ==
    \A key \in MovementKeys :
        (/\ tree.focussed
         /\ IsSome(NewCursor(key))
         /\ viewport_row_count_floor(UpdateLayout) >= 1
         /\ viewport_column_count_floor(UpdateLayout) >= 1) =>
            With(RequestedViewport(KeyResult(key).out), LAMBDA viewport :
            With(NewCursor(key).value % viewer.virtual_columns, LAMBDA column :
            With(NewCursor(key).value \div viewer.virtual_columns, LAMBDA row :
                /\ InRange(column, viewport.x, viewport.x + viewport.columns - 1)
                /\ InRange(row, viewport.y, viewport.y + viewport.rows - 1))))

\* Points in the padding of a data area with the content rectangle
\* `inner`: left and right of each row in view, and below the first column,
\* each with the side of the area and the row it lies beside
PaddingPointsOf(l, area, inner) ==
    {[point |-> Point_new(area.x, inner.y + row * row_height(l) + row_height(l) \div 2),
      kind |-> "left", row |-> row] : row \in 0 .. viewport_row_count_ceil(l) - 1}
    \cup {[point |-> Point_new(area.x + area.width - 1,
                               inner.y + row * row_height(l) + row_height(l) \div 2),
           kind |-> "right", row |-> row] : row \in 0 .. viewport_row_count_ceil(l) - 1}
    \cup {[point |-> Point_new(inner.x + 1, area.y + area.height - 1),
           kind |-> "bottom", row |-> viewport_row_count_ceil(l) - 1]}

\* The points in the padding of the byte area and of the char area
PaddingPoints(l) ==
    PaddingPointsOf(l, l.byte_area, byte_area_content(l))
    \cup PaddingPointsOf(l, l.char_area, char_area_content(l))

\* C35: a point in the left padding beside row r resolves to column 0 of
\* row r with side Left, one in the right padding to the last column of row
\* r with side Right, one in the bottom padding to a cell of the last row in
\* view with side Right: the index lies in that row of the byte grid with
\* that side, or is the last byte of the source when the row ends past the
\* end of the source.
C35_PaddingResolvesInRow ==
    \A pp \in PaddingPoints(UpdateLayout) :
        With(index(viewer, content, UpdateLayout, pointer_location(UpdateLayout, pp.point)),
             LAMBDA idx :
        With(content.viewport.y + pp.row, LAMBDA row :
            /\ IsSome(idx)
            /\ \/ /\ idx.value.offset \div viewer.virtual_columns = row
                  /\ idx.value.side = (IF pp.kind = "left" THEN "Left" ELSE "Right")
               \/ /\ (row + 1) * viewer.virtual_columns > content.source_size
                  /\ idx.value = Index_new(content.source_size - 1, "Right")))

(***************************************************************************)
(* The cells of a layout and the pointer on their centres: layouts of      *)
(* several sizes, with room for all columns or for fewer                   *)
(***************************************************************************)

\* Bounds of the layouts: the bytes of the source, the columns, and the rows
\* that fit.
CellsSourceSize == 4
CellsColumns == 3
CellsRows == 2

\* The rectangle of the cell (col, row) of the byte or the char area
CellRectangle(l, area, col, row) ==
    IF area = "ByteArea" THEN byte_cell(l, col, row) ELSE char_cell(l, col, row)

\* The content rectangle of the byte or the char area
AreaContent(l, area) ==
    IF area = "ByteArea" THEN byte_area_content(l) ELSE char_area_content(l)

\* Rectangle::center; the widths and heights of the cells are even
Rectangle_center(r) == Point_new(r.x + r.width \div 2, r.y + r.height \div 2)

\* Whether part of the rectangle r, or all of it, is inside the rectangle b
Overlaps(r, b) ==
    /\ r.x < b.x + b.width /\ b.x < r.x + r.width
    /\ r.y < b.y + b.height /\ b.y < r.y + r.height

Inside(r, b) ==
    /\ b.x <= r.x /\ r.x + r.width <= b.x + b.width
    /\ b.y <= r.y /\ r.y + r.height <= b.y + b.height

\* The cells (area, col, row) of the layout l that hold a byte of the source,
\* the viewport at the start of the data
DataCells(l) ==
    {cell \in [area : {"ByteArea", "CharArea"}, col : 0 .. l.virtual_columns - 1,
               row : 0 .. virtual_rows_ceil(l) - 1] :
        cell.row * l.virtual_columns + cell.col < l.source_size}

\* Those of which a part is in view, and those that are in view as a whole
VisibleCells(l) ==
    {cell \in DataCells(l) :
        Overlaps(CellRectangle(l, cell.area, cell.col, cell.row), AreaContent(l, cell.area))}

FullyVisibleCells(l) ==
    {cell \in DataCells(l) :
        Inside(CellRectangle(l, cell.area, cell.col, cell.row), AreaContent(l, cell.area))}

\* Whether pointer_location finds the cell at the centre of its rectangle
RoundTrip(l, cell) ==
    With(pointer_location(l, Rectangle_center(CellRectangle(l, cell.area, cell.col, cell.row))),
         LAMBDA location :
        /\ location.kind = cell.area
        /\ location.data.kind = "Cell"
        /\ location.data.cell.col = cell.col
        /\ location.data.cell.row = cell.row)

\* The widths by which the space exceeds the room for whole columns: none,
\* or half the width of a byte
Excess == {0, FontMetrics.byte_width \div 2}

\* A viewer of `columns` columns over `source_size` bytes with room for
\* `room` columns, `excess` more, and `rows` rows, and a pointer that visits
\* the centres of the cells in view
CellsConfig(source_size, columns, room, excess, rows) ==
    With([NarrowLimits(source_size, columns, room, rows) EXCEPT !.width = @ + excess],
         LAMBDA limits :
        Config(FontMetrics, limits, WindowOf(limits),
               {Rectangle_center(CellRectangle(LayoutIn(source_size, columns, limits),
                                               cell.area, cell.col, cell.row)) :
                    cell \in VisibleCells(LayoutIn(source_size, columns, limits))},
               {}, {}, {FALSE}, None))

CellsInit ==
    /\ \E source_size \in 1 .. CellsSourceSize, columns \in 1 .. CellsColumns,
          rows \in 1 .. CellsRows, excess \in Excess :
       \E room \in 1 .. columns :
        /\ source = [size |-> source_size, chunk |-> source_size]
        /\ ViewerStart(CellsConfig(source_size, columns, room, excess, rows), columns)
    /\ content = Content_new(source, 0)
    /\ ContentHistoryIdle
    /\ AxisIdle
    /\ IxIdle
    /\ IdIdle
    /\ BarIdle

CellsNext == MouseMoved

SpecCells == CellsInit /\ [][CellsNext]_vars

\* C28 as stated: for every cell of the byte or the char area that is in
\* view, in part or as a whole, pointer_location of the centre of the cell's
\* rectangle is a Cell location of that area with the cell's column and row.
C28_VisibleCellRoundTrip ==
    (content.viewport.x = 0 /\ content.viewport.y = 0) =>
        \A cell \in VisibleCells(UpdateLayout) : RoundTrip(UpdateLayout, cell)

\* C28: for every cell of the byte or the char area whose rectangle lies
\* inside the content rectangle of its area, pointer_location of the centre
\* of the rectangle is a Cell location of that area with the cell's column
\* and row.
C28_FullyVisibleCellRoundTrip ==
    (content.viewport.x = 0 /\ content.viewport.y = 0) =>
        \A cell \in FullyVisibleCells(UpdateLayout) : RoundTrip(UpdateLayout, cell)

\* The pointer is on the centre of a cell of the char area, not the first of
\* its row, that is in view as a whole, and the viewer has it as hovered
C28_Witness ==
    \E cell \in FullyVisibleCells(UpdateLayout) :
        /\ cell.area = "CharArea"
        /\ cell.col > 0
        /\ cell.row > 0
        /\ seen.type = "CursorMoved"
        /\ env.cursor = Some(Rectangle_center(CellRectangle(UpdateLayout, cell.area,
                                                            cell.col, cell.row)))
        /\ tree.hovered_column = Some(cell.col)
        /\ tree.hovered_row = Some(cell.row)

(***************************************************************************)
(* Contents constructed by several threads: each Content::new takes its id *)
(* from CONTENT_COUNTER                                                    *)
(***************************************************************************)

\* Bounds of the construction: the threads, and the Contents each of them
\* constructs.
MaxThreads == 2
MaxConstructions == 2

Threads == 1 .. MaxThreads

\* The sources the threads construct over: an empty one and the example's
IdSources == {source, ScenarioSource}

IdsInit ==
    /\ CONTENT_COUNTER = 1
    /\ contents = [t \in Threads |-> <<>>]
    /\ ContentIdle
    /\ ViewerIdle
    /\ AxisIdle
    /\ IxIdle
    /\ BarIdle

\* Thread t runs Content::new over some source
Construct(t) ==
    /\ Len(contents[t]) < MaxConstructions
    /\ \E src \in IdSources, taken \in {fetch_add(CONTENT_COUNTER, 1)} :
        /\ contents' = [contents EXCEPT ![t] = Append(@, Content_new(src, taken.old))]
        /\ CONTENT_COUNTER' = taken.new
    /\ UNCHANGED <<axisVars, ixVars, contentVars, viewerVars, barVars>>

IdsNext == \E t \in Threads : Construct(t)

SpecIds == IdsInit /\ [][IdsNext]_vars

\* C29: any two Contents, constructed by one thread or by different threads
\* in any interleaving, have different ids.
C29_IdsAreDistinct ==
    \A t, u \in DOMAIN contents :
        \A i \in 1 .. Len(contents[t]), j \in 1 .. Len(contents[u]) :
            /\ contents[t][i].id # content.id
            /\ (t # u \/ i # j) => contents[t][i].id # contents[u][j].id

\* Two threads have constructed Contents in turns: the second thread took
\* its id between the two of the first
C29_Witness ==
    /\ Len(contents[1]) = 2
    /\ Len(contents[2]) >= 1
    /\ contents[1][1].id < contents[2][1].id
    /\ contents[2][1].id < contents[1][2].id

(***************************************************************************)
(* One scrollbar updated by itself: presses, moves and releases of the     *)
(* pointer along bounds of two lengths, over an axis whose owner takes the *)
(* offsets of the thumb                                                    *)
(***************************************************************************)

\* Bounds of the scrollbar: the thickness of its bounds and the place of
\* their corner.
BarThickness == 10
BarCorner == 3

\* The lengths of the bounds: shorter than the smallest thumb, and longer
BarLengths == {8, 30}

\* The axes: the empty one and the longest of the axis model in steps of one
\* pixel, one or two steps in view, at the offsets from 0 to the maximum
BarViewports ==
    {v \in AxisStates : /\ v.step_size = 1
                        /\ v.size \in {0, MaxAxisSize}
                        /\ v.content_viewport_size \in {1, 2}
                        /\ v.offset >= 0 /\ v.offset <= virtual_max_offset(v)}

BarBounds(sb, length) ==
    IF sb.dir = "Horizontal"
    THEN Rectangle_new(BarCorner, BarCorner + 1, length, BarThickness)
    ELSE Rectangle_new(BarCorner, BarCorner + 1, BarThickness, length)

\* The point at `along` on the middle line of the scrollbar
BarPoint(sb, bounds, along) ==
    IF sb.dir = "Horizontal"
    THEN Point_new(bounds.x + along, bounds.y + bounds.height \div 2)
    ELSE Point_new(bounds.x + bounds.width \div 2, bounds.y + along)

\* The places of the pointer: three along the bounds, one past their end
\* and none
BarCursors ==
    With(AlongLength(bar, bar_bounds), LAMBDA length :
        {None} \cup {Some(BarPoint(bar, bar_bounds, along)) :
                        along \in {0, length \div 2, length - 1, length + 2}})

BarInit ==
    /\ bar \in {HorizontalScrollbar_default, VerticalScrollbar_default}
    /\ bar_state = ScrollbarState_default
    /\ bar_bounds \in {BarBounds(bar, length) : length \in BarLengths}
    /\ bar_seen = <<>>
    /\ timer = None
    /\ now = 0
    /\ axis \in BarViewports
    /\ axis_prev = axis
    /\ axis_op = "new"
    /\ axis_res = 0
    /\ IxIdle
    /\ IdIdle
    /\ ContentIdle
    /\ ViewerIdle

\* HorizontalScrollbar::update or VerticalScrollbar::update with `event` and
\* the viewport of the axis; the owner takes the offset of a ThumbDragged
BarUpdate(event, cursor) ==
    \E u \in {Scrollbar_update(bar, bar_state, event, bar_bounds, Some(axis), cursor)} :
        /\ bar' = u.sb
        /\ bar_state' = u.state
        /\ bar_seen' = <<[type |-> event.type, cursor |-> cursor, result |-> u.result]>>
        /\ axis' = IF u.result.tag = "ThumbDragged"
                   THEN [axis EXCEPT !.offset = u.result.offset] ELSE axis
        /\ UNCHANGED <<axis_prev, axis_res, bar_bounds, timer, now>>
        /\ UNCHANGED <<ixVars, contentVars, viewerVars, idVars>>

\* The primary button is pressed
BarPressed ==
    /\ \E cursor \in BarCursors, fast \in BOOLEAN :
           BarUpdate(Event("ButtonPressed", "", FALSE, 0, 0, fast, FALSE), cursor)
    /\ axis_op' = "pressed"

\* The pointer moves
BarMoved ==
    /\ \E cursor \in BarCursors :
           BarUpdate(Event("CursorMoved", "", FALSE, 0, 0, FALSE, FALSE), cursor)
    /\ axis_op' = "moved"

\* The primary button is released
BarReleased ==
    /\ \E cursor \in BarCursors :
           BarUpdate(Event("ButtonReleased", "", FALSE, 0, 0, FALSE, FALSE), cursor)
    /\ axis_op' = "released"

\* The window asks for a redraw, the pointer where it was
BarRedraw ==
    /\ bar_seen # <<>>
    /\ BarUpdate(Event("RedrawRequested", "", FALSE, 0, 0, FALSE, FALSE), bar_seen[1].cursor)
    /\ axis_op' = "redraw"

BarNext ==
    \/ BarPressed
    \/ BarMoved
    \/ BarReleased
    \/ BarRedraw

SpecBar == BarInit /\ [][BarNext]_vars

\* The presses: of the primary button and of a finger, within 300 ms of
\* the click before or later
Presses ==
    {Event(type, "", FALSE, 0, 0, fast, FALSE) :
        type \in {"ButtonPressed", "FingerPressed"}, fast \in BOOLEAN}

\* What a press at `a` along the scrollbar must give, the thumb lying from
\* `lead` up to `trail`: the region held, the result and its side
PressedRegion(a, lead, trail) ==
    IF a < lead THEN [kind |-> "TrackBeforeThumb", tag |-> "TrackClicked", side |-> "Before"]
    ELSE IF a < trail THEN [kind |-> "Thumb", tag |-> "ThumbGrabbed", side |-> "Before"]
    ELSE [kind |-> "TrackAfterThumb", tag |-> "TrackClicked", side |-> "After"]

\* The result of one scrollbar as the scroll area hands it to the viewer
AreaResult(result) ==
    ScrollAreaResult(IF bar.dir = "Horizontal" THEN "Horizontal" ELSE "Vertical", result, 0, 0)

\* C32: a press of the primary button or of a finger with the pointer inside
\* the track and the thumb taken together, a viewport given: the point is
\* before the leading edge of the thumb, inside the thumb, or at or after
\* its trailing edge; last_region is that region, and the result is
\* TrackClicked Before, ThumbGrabbed or TrackClicked After, with the kind of
\* the click and an offset within [0, virtual_max_offset]; the viewer takes
\* no scroll offset from a ThumbGrabbed.
C32_PressClassifiesRegion ==
    \A event \in Presses, cursor \in BarCursors :
        With(Scrollbar_layout(bar, bar_bounds, axis), LAMBDA layout :
        scrollbar_hovered(layout, cursor) =>
            With(Scrollbar_update(bar, bar_state, event, bar_bounds, Some(axis), cursor),
                 LAMBDA u :
            With(PressedRegion(Along(bar, cursor.value), Along(bar, layout.value.thumb),
                               Along(bar, layout.value.thumb)
                                   + AlongLength(bar, layout.value.thumb)), LAMBDA expected :
                /\ IsSome(u.state.last_region)
                /\ u.state.last_region.value.kind = expected.kind
                /\ u.result.tag = expected.tag
                /\ IsSome(u.state.last_click)
                /\ u.result.kind = u.state.last_click.value.kind
                /\ u.result.tag = "TrackClicked" =>
                       /\ u.result.side = expected.side
                       /\ u.result.offset \in 0 .. virtual_max_offset(axis)
                /\ u.result.tag = "ThumbGrabbed" =>
                       \A due \in BOOLEAN :
                           handle_scroll_result(tree, AreaResult(u.result), ScrollLayout,
                                                axis, axis, due).offset = None)))

\* A second press in a row on the track after the thumb of a vertical
\* scrollbar: a double click that asks for the last offset of the axis
C32_Witness ==
    /\ bar_seen # <<>>
    /\ bar_seen[1].type = "ButtonPressed"
    /\ bar.dir = "Vertical"
    /\ bar_seen[1].result.tag = "TrackClicked"
    /\ bar_seen[1].result.side = "After"
    /\ bar_seen[1].result.kind = "Double"
    /\ bar_seen[1].result.offset = virtual_max_offset(axis)
    /\ virtual_max_offset(axis) > 0

\* The events a scrollbar is updated with: those of the pointer, of a
\* finger, of the keyboard and of the window
BarEvents ==
    Presses \cup
    {Event(type, "", FALSE, 0, 0, FALSE, FALSE) :
        type \in {"ButtonReleased", "FingerLifted", "FingerLost", "CursorMoved",
                  "FingerMoved", "WheelScrolled", "KeyPressed", "ModifiersChanged",
                  "RedrawRequested"}}

\* C33: an update gives ThumbDragged(o) only for a move of the pointer or of
\* a finger while last_region is Thumb, only with o other than the offset of
\* the viewport, and with o within [0, virtual_max_offset]; no other event
\* gives a ThumbDragged while the thumb is held.
C33_ThumbDraggedOnlyOnMove ==
    \A event \in BarEvents, cursor \in BarCursors :
        With(Scrollbar_update(bar, bar_state, event, bar_bounds, Some(axis), cursor),
             LAMBDA u :
            u.result.tag = "ThumbDragged" =>
                /\ event.type \in {"CursorMoved", "FingerMoved"}
                /\ IsSome(bar_state.last_region)
                /\ bar_state.last_region.value.kind = "Thumb"
                /\ u.result.offset # axis.offset
                /\ u.result.offset \in 0 .. virtual_max_offset(axis))

\* The thumb of a horizontal scrollbar has been dragged from the start of
\* the axis to its end
C33_Witness ==
    /\ bar_seen # <<>>
    /\ bar_seen[1].type = "CursorMoved"
    /\ bar.dir = "Horizontal"
    /\ bar_seen[1].result.tag = "ThumbDragged"
    /\ bar_seen[1].result.offset = virtual_max_offset(axis)
    /\ axis.offset = virtual_max_offset(axis)
    /\ axis_prev.offset = 0

(***************************************************************************)
(* The conversion of a place of the thumb to an offset of the axis, for    *)
(* places and ranges that are not whole pixels                             *)
(***************************************************************************)

\* Bound of the conversion: the longest range of the thumb, in parts of a
\* pixel.
MaxVisualRange == 9

\* The conversion for the axis, the range and the place of the last one
Converted(visual_offset) ==
    virtual_offset_from_visual_parts(virtual_max_offset(axis), visual_offset,
                                     bar_seen[1].range)

VisualInit ==
    /\ axis \in {v \in AxisStates : v.step_size = 1 /\ v.offset = 0}
    /\ axis_prev = axis
    /\ axis_op = "new"
    /\ axis_res = 0
    /\ bar_seen \in {<<[range |-> range, visual_offset |-> 0, result |-> 0]>> :
                       range \in 0 .. MaxVisualRange}
    /\ bar = HorizontalScrollbar_default
    /\ bar_state = ScrollbarState_default
    /\ bar_bounds = Rectangle_new(0, 0, 0, 0)
    /\ timer = None
    /\ now = 0
    /\ IxIdle
    /\ IdIdle
    /\ ContentIdle
    /\ ViewerIdle

\* virtual_offset_from_visual for a place of the thumb within its range
Convert ==
    \E visual_offset \in 0 .. bar_seen[1].range :
        /\ bar_seen' = <<[bar_seen[1] EXCEPT !.visual_offset = visual_offset,
                                             !.result = Converted(visual_offset)]>>
        /\ axis_op' = "virtual_offset_from_visual"
        /\ UNCHANGED <<axis, axis_prev, axis_res, bar, bar_state, bar_bounds, timer, now>>
        /\ UNCHANGED <<ixVars, contentVars, viewerVars, idVars>>

VisualNext == Convert

SpecVisual == VisualInit /\ [][VisualNext]_vars

\* floor(m * floor(p) / max(1, floor(r))) capped at m, for p and r in parts
\* of a pixel
FlooredRatio(m, p, r) ==
    With(Max(1, r \div PixelParts), LAMBDA whole_range :
        Min((m * (p \div PixelParts)) \div whole_range, m))

\* The conversion of the scrollbars for `range` and `visual_offset` whole
\* pixels
ConvertedWhole(visual_offset, range) ==
    virtual_offset_from_visual(HorizontalScrollbar_default,
                               [track |-> Rectangle_new(0, 0, range, 0),
                                thumb |-> Rectangle_new(0, 0, 0, 0)],
                               visual_offset, axis)

\* What holds of the conversion whatever the range is: its value, its
\* limits, its order and its start; for whole pixels it is the conversion
\* of the scrollbars
ConversionIsOrdered ==
    With(virtual_max_offset(axis), LAMBDA scroll_max :
        \A p \in 0 .. bar_seen[1].range :
            /\ Converted(p) = FlooredRatio(scroll_max, p, bar_seen[1].range)
            /\ Converted(p) \in 0 .. scroll_max
            /\ \A q \in p .. bar_seen[1].range : Converted(p) <= Converted(q)
            /\ Converted(0) = 0
            /\ (p % PixelParts = 0 /\ bar_seen[1].range % PixelParts = 0) =>
                   Converted(p) = ConvertedWhole(p \div PixelParts,
                                                 bar_seen[1].range \div PixelParts))

\* C34 as stated: the conversion is floor(m * floor(p) / max(1, floor(r)))
\* capped at the maximum offset m; for a place p within the range r it lies
\* in [0, m], does not decrease with p, is 0 at p = 0 and is m at p = r.
C34_ConversionReachesMaximum ==
    /\ ConversionIsOrdered
    /\ Converted(bar_seen[1].range) = virtual_max_offset(axis)

\* C34: the same, the value m at p = r only for a range of one pixel or
\* more.
C34_ConversionReachesMaximumOfRange ==
    /\ ConversionIsOrdered
    /\ bar_seen[1].range >= PixelParts =>
           Converted(bar_seen[1].range) = virtual_max_offset(axis)

\* A place in the middle of a range that is not a whole number of pixels
\* has been converted to an offset strictly between 0 and the maximum
C34_Witness ==
    /\ axis_op = "virtual_offset_from_visual"
    /\ bar_seen[1].range % PixelParts # 0
    /\ bar_seen[1].visual_offset % PixelParts # 0
    /\ bar_seen[1].result > 0
    /\ bar_seen[1].result < virtual_max_offset(axis)

(***************************************************************************)
(* The timer of a held track: the clock advances between the results of    *)
(* the horizontal scrollbar that HexViewer::handle_scroll_result is given  *)
(***************************************************************************)

\* Bounds of the clock: the milliseconds of one tick and the last instant
\* followed, and the interval of the timer of a track click.
TickLength == 50
MaxInstant == 400
TrackInterval == 100

\* The results of a scrollbar about its track, for the axis as it is
TrackResults(tag) ==
    {ScrollResult(tag, kind, side, offset) :
        kind \in {"Single", "Double"}, side \in {"Before", "After"},
        offset \in 0 .. virtual_max_offset(axis)}

TimerInit ==
    /\ timer = None
    /\ now = 0
    /\ axis \in BarViewports
    /\ axis_prev = axis
    /\ axis_op = "new"
    /\ axis_res = 0
    /\ bar_seen = <<>>
    /\ bar = HorizontalScrollbar_default
    /\ bar_state = ScrollbarState_default
    /\ bar_bounds = Rectangle_new(0, 0, 0, 0)
    /\ IxIdle
    /\ IdIdle
    /\ ContentIdle
    /\ ViewerIdle

\* handle_scroll_result for Horizontal(TrackClicked(..)): the timer is set
\* and the application applies the offset
TimerClicked ==
    \E r \in TrackResults("TrackClicked") :
        /\ timer' = Some(Timer_at(now, TrackInterval))
        /\ axis' = [axis EXCEPT !.offset = horizontal_track(r.kind, r.side, r.offset, axis)]
        /\ bar_seen' = <<[result |-> r, scrolled |-> TRUE, redraw_at |-> None]>>
        /\ axis_op' = "TrackClicked"
        /\ UNCHANGED <<axis_prev, axis_res, bar, bar_state, bar_bounds, now>>
        /\ UNCHANGED <<ixVars, contentVars, viewerVars, idVars>>

\* handle_scroll_result for Horizontal(TrackHeld(..)), which a scrollbar
\* gives after a TrackClicked only: the application applies the offset if
\* there is one
TimerHeld ==
    /\ IsSome(timer)
    /\ \E r \in TrackResults("TrackHeld") :
       \E h \in {track_held_at(timer, r.side, r.offset, axis, now)} :
        /\ timer' = h.track_timer
        /\ axis' = IF h.runs
                   THEN [axis EXCEPT !.offset = horizontal_track(r.kind, r.side, r.offset, axis)]
                   ELSE axis
        /\ bar_seen' = <<[result |-> r, scrolled |-> h.runs, redraw_at |-> h.redraw_at]>>
        /\ axis_op' = "TrackHeld"
        /\ UNCHANGED <<axis_prev, axis_res, bar, bar_state, bar_bounds, now>>
        /\ UNCHANGED <<ixVars, contentVars, viewerVars, idVars>>

\* Time passes
Tick ==
    /\ now + TickLength <= MaxInstant
    /\ now' = now + TickLength
    /\ axis_op' = "Tick"
    /\ UNCHANGED <<axis, axis_prev, axis_res, bar, bar_state, bar_bounds, bar_seen, timer>>
    /\ UNCHANGED <<ixVars, contentVars, viewerVars, idVars>>

TimerNext ==
    \/ TimerClicked
    \/ TimerHeld
    \/ Tick

SpecTimer == TimerInit /\ [][TimerNext]_vars

\* C36: a track click sets the timer to now + 100 ms.  A TrackHeld result
\* gives a scroll only if now is later than the target of the timer and the
\* offset it carries lies beyond the offset of the axis on the held side;
\* when it scrolls the timer is set to now + its interval, otherwise the
\* timer stays; and whenever the side condition holds a redraw is requested
\* at the target the timer then has, and none otherwise.
C36_TrackHeldIsThrottled ==
    /\ axis_op = "TrackClicked" => timer = Some([target |-> now + 100, interval |-> 100])
    /\ IsSome(timer) =>
        \A r \in TrackResults("TrackHeld") :
            With(track_held_at(timer, r.side, r.offset, axis, now), LAMBDA h :
            With(IF r.side = "Before" THEN r.offset < axis.offset
                 ELSE r.offset > axis.offset, LAMBDA beyond :
                /\ h.runs = (beyond /\ now > timer.value.target)
                /\ h.runs = track_held([track_timer |-> timer], r.side, r.offset, axis,
                                       now > timer.value.target)
                /\ h.runs => h.track_timer = Some([target |-> now + timer.value.interval,
                                                   interval |-> timer.value.interval])
                /\ ~h.runs => h.track_timer = timer
                /\ h.redraw_at = IF beyond THEN Some(h.track_timer.value.target) ELSE None))

\* A held track has scrolled a second time, one interval after the first
C36_Witness ==
    /\ axis_op = "TrackHeld"
    /\ bar_seen[1].scrolled
    /\ bar_seen[1].result.side = "After"
    /\ now > 2 * TrackInterval
    /\ timer = Some(Timer_at(now, TrackInterval))
    /\ bar_seen[1].redraw_at = Some(now + TrackInterval)

(***************************************************************************)
(* The viewer whose space and whose source change between the events: the  *)
(* viewports it emits                                                      *)
(***************************************************************************)

\* Bounds of the viewer that is resized: the bytes of the source, the
\* columns, the columns for which there is room, the rows that fit in the
\* lower of its two spaces, and the events of a session.
EmitSourceSize == 9
EmitColumns == 3
EmitRoom == 2
EmitRows == 1
EmitMaxEvents == 4

\* The space in which `rows` rows fit
EmitLimits(rows) == NarrowLimits(EmitSourceSize, EmitColumns, EmitRoom, rows)

\* The two spaces the parent offers: one row fits, or all rows fit
EmitSpaces == {EmitLimits(EmitRows), EmitLimits(EmitRows + 2)}

\* The sizes the source takes: all of its bytes, or its first row only
EmitSizes == {EmitSourceSize, EmitColumns}

\* Two points on the horizontal scrollbar, near the ends of its track
HorizontalBarEnds(l) ==
    With(x_bounds(scroll_area_bounds(l), ScrollArea_new), LAMBDA b :
        { Point_new(x, b.y + b.height \div 2) : x \in {b.x + 6, b.x + b.width - 6} })

\* The points the pointer visits: the first cell and the far end of the
\* horizontal scrollbar in either space
EmitPoints ==
    {FirstCellPoint(LayoutIn(EmitSourceSize, EmitColumns, EmitLimits(EmitRows)))}
    \cup UNION {HorizontalBarEnds(LayoutIn(EmitSourceSize, EmitColumns, limits)) :
                    limits \in EmitSpaces}

\* The wheel turns one line up or two lines down
EmitWheel == {[x |-> 0, y |-> 1], [x |-> 0, y |-> -2]}

EmitConfig ==
    Config(FontMetrics, EmitLimits(EmitRows), WindowOf(EmitLimits(EmitRows + 2)),
           EmitPoints, {}, EmitWheel, {FALSE}, Some(EmitMaxEvents))

EmitInit ==
    /\ source = [size |-> EmitSourceSize, chunk |-> EmitSourceSize]
    /\ content = Content_new(source, 0)
    /\ ContentHistoryIdle
    /\ ViewerStart(EmitConfig, EmitColumns)
    /\ AxisIdle
    /\ IxIdle
    /\ IdIdle
    /\ BarIdle

\* The parent offers the other space: the next Widget::layout gives other
\* bounds
Resized ==
    /\ \E limits \in EmitSpaces \ {cfg.limits} :
        cfg' = [cfg EXCEPT !.limits = limits]
    /\ seen' = [NoEvent EXCEPT !.type = "Resized"]
    /\ UNCHANGED <<app, viewer, tree, env, out, contentVars>>
    /\ UNCHANGED <<axisVars, ixVars, idVars, barVars>>

\* The source is truncated or grows back; the Content learns its size with
\* the next Content::update
SourceResized ==
    /\ \E size \in EmitSizes \ {source.size} :
        source' = [source EXCEPT !.size = size]
    /\ seen' = [NoEvent EXCEPT !.type = "SourceResized"]
    /\ UNCHANGED <<cfg, app, viewer, tree, env, out, content, c_hist, c_items>>
    /\ UNCHANGED <<axisVars, ixVars, idVars, barVars>>

EmitNext ==
    \/ MousePressed
    \/ MouseReleased
    \/ MouseMoved
    \/ WheelScrolled
    \/ RedrawRequested
    \/ Resized
    \/ SourceResized

SpecEmit == EmitInit /\ [][EmitNext]_vars

\* Whether the viewport v lies within the scroll range of the axes of the
\* layout, with at least one column
ViewportInRange(v, layout) ==
    /\ v.x >= 0
    /\ v.y >= 0
    /\ v.columns >= 1
    /\ v.rows >= 0
    /\ v.x <= virtual_max_offset(x_viewport(viewer, content, layout))
    /\ v.y <= virtual_max_offset(y_viewport(content, layout))

\* C37: every viewport that Widget::update publishes, with viewport-scrolled
\* or with logical-viewport-size-changed, for any event in any reachable
\* state, has x >= 0, y >= 0, columns >= 1 and rows >= 0, and its x and y
\* are at most the maximum offset of their scroll axis in the layout of that
\* update.
C37_EmittedViewportsInRange ==
    \A in \in NextInputs :
        With(InputResult(in).out, LAMBDA messages :
            \A i \in ViewportMessages(messages) :
                ViewportInRange(messages[i].viewport, UpdateLayout))

\* The events that neither scroll nor move the cursor wherever the pointer
\* is: a redraw before the track timer is due, a change of the modifiers,
\* and a release of the primary button
QuietEvents ==
    {Event(type, "", FALSE, 0, 0, FALSE, FALSE) :
        type \in {"RedrawRequested", "ModifiersChanged", "ButtonReleased"}}

\* Widget::update for `event`, the pointer where the input `in` left it,
\* once the application has handled the messages of the update `u` for `in`
\* and has built the viewer anew
AfterResult(in, u, event) ==
    With(HexComponent_update_all(app, content, source, u.out, 1), LAMBDA a :
    With(IF Len(u.out) > 0 THEN HexComponent_view(a.app) ELSE u.hv, LAMBDA hv :
        HexViewer_update(hv, a.content, u.state, event,
                         HexViewer_layout(hv, a.content, cfg.metrics, cfg.limits),
                         cfg.metrics, in.cursor, cfg.window)))

\* Whether the updates that follow the update for the input `in`, for events
\* that neither scroll nor move the cursor, publish no viewport
SettlesAfter(in) ==
    With(InputResult(in), LAMBDA u :
        "LogicalViewportSizeChanged" \in Tags(u.out) =>
            \A event \in QuietEvents :
                ViewportMessages(AfterResult(in, u, event).out) = {})

\* C40: once the application has applied the logical-viewport-size-changed
\* viewport of an update with Content::update (the space of the viewer and
\* the source as they were at that update), the updates that follow for
\* events that neither scroll nor move the cursor publish neither
\* viewport-scrolled nor logical-viewport-size-changed.
C40_ReportingSettles ==
    content.source_size = source.size =>
        \A in \in NextInputs : SettlesAfter(in)

\* The same for the updates that publish no other viewport than the one of
\* logical-viewport-size-changed
ReportingSettlesWithoutScroll ==
    content.source_size = source.size =>
        \A in \in NextInputs :
            "Scrolled" \notin Tags(InputResult(in).out) => SettlesAfter(in)

(***************************************************************************)
(* The viewer with the primary button held on the track of a scrollbar     *)
(***************************************************************************)

\* Bounds of the viewer whose track is held: the steps of the axis that
\* scrolls (the rows of a viewer of one column, or the columns of a viewer
\* of one row), the pixels by which its short space misses a whole step, and
\* the events of a session.
HoldSteps == 4
HoldCut == 7
HoldMaxEvents == 6

\* The viewers: one column of HoldSteps rows with room for a row, and one
\* row of HoldSteps columns with room for a column, each also in a space
\* that is HoldCut pixels short of that
HoldShapes ==
    {[columns |-> 1,
      limits |-> [FittingLimits(HoldSteps, 1, 1) EXCEPT !.height = @ - cut]] :
        cut \in {0, HoldCut}}
    \cup {[columns |-> HoldSteps,
           limits |-> [NarrowLimits(HoldSteps, HoldSteps, 1, 1) EXCEPT !.width = @ - cut]] :
            cut \in {0, HoldCut}}

\* The last points of the tracks of the two scrollbars
TrackEnds(l) ==
    With(y_bounds(scroll_area_bounds(l), ScrollArea_new), LAMBDA yb :
    With(x_bounds(scroll_area_bounds(l), ScrollArea_new), LAMBDA xb :
        {Point_new(yb.x + yb.width \div 2, yb.y + yb.height - 1),
         Point_new(xb.x + xb.width - 1, xb.y + xb.height \div 2)}))

\* The first points of the tracks of the two scrollbars
TrackStarts(l) ==
    With(y_bounds(scroll_area_bounds(l), ScrollArea_new), LAMBDA yb :
    With(x_bounds(scroll_area_bounds(l), ScrollArea_new), LAMBDA xb :
        {Point_new(yb.x + yb.width \div 2, yb.y), Point_new(xb.x, xb.y + xb.height \div 2)}))

\* The wheel turns to the end of either axis
HoldWheel == {[x |-> 0, y |-> -HoldSteps], [x |-> -HoldSteps, y |-> 0]}

HoldConfig(shape) ==
    With(LayoutIn(HoldSteps, shape.columns, shape.limits), LAMBDA l :
        Config(FontMetrics, shape.limits, WindowOf(shape.limits),
               TrackEnds(l) \cup TrackStarts(l), {}, HoldWheel, BOOLEAN,
               Some(HoldMaxEvents)))

HoldInit ==
    /\ source = [size |-> HoldSteps, chunk |-> HoldSteps]
    /\ content = Content_new(source, 0)
    /\ ContentHistoryIdle
    /\ \E shape \in HoldShapes : ViewerStart(HoldConfig(shape), shape.columns)
    /\ AxisIdle
    /\ IxIdle
    /\ IdIdle
    /\ BarIdle

HoldNext ==
    \/ MousePressed
    \/ MouseReleased
    \/ MouseMoved
    \/ WheelScrolled
    \/ RedrawRequested

SpecHold == HoldInit /\ [][HoldNext]_vars

\* The result ScrollArea::update gives Widget::update for the input `in` in
\* the current state
AreaHandled(in) ==
    With(UpdateLayout, LAMBDA layout :
        ScrollArea_update(viewer.scroll_area, tree.scroll_area_state, in.event,
                          scroll_area_bounds(layout),
                          Some(x_viewport(viewer, content, layout)),
                          Some(y_viewport(content, layout)), in.cursor).result)

\* Whether the scroll offset `offset` lies on the side `side` of the offset
\* `current` of an axis
TowardSide(side, offset, current) ==
    IF side = "Before" THEN offset < current ELSE offset > current

\* Whether the scroll offset that Widget::update has from a TrackHeld result
\* for the input `in`, if it has one, moves the axis of the held scrollbar
\* towards the held side, within the range of the axis, and leaves the other
\* axis
HeldScrollAdvances(in) ==
    With(AreaHandled(in), LAMBDA result :
    With(ScrollHandled(in).offset, LAMBDA offset :
        (result.tag \in {"Horizontal", "Vertical"} /\ result.result.tag = "TrackHeld"
            /\ IsSome(offset)) =>
        IF result.tag = "Horizontal"
        THEN /\ TowardSide(result.result.side, offset.value.x, content.viewport.x)
             /\ offset.value.x \in
                    0 .. virtual_max_offset(x_viewport(viewer, content, UpdateLayout))
             /\ offset.value.y = content.viewport.y
        ELSE /\ TowardSide(result.result.side, offset.value.y, content.viewport.y)
             /\ offset.value.y \in
                    0 .. virtual_max_offset(y_viewport(content, UpdateLayout))
             /\ offset.value.x = content.viewport.x))

\* Whether a whole step of the axis of the held scrollbar fits in the
\* viewport, for the input `in`
StepFits(in) ==
    IF AreaHandled(in).tag = "Horizontal"
    THEN viewport_steps_floor(x_viewport(viewer, content, UpdateLayout)) >= 1
    ELSE viewport_row_count_floor(UpdateLayout) >= 1

\* C39: while a track is held and the application applies every viewport,
\* every scroll offset that a TrackHeld result gives moves the offset of the
\* axis of that scrollbar strictly towards the held side (down for Before,
\* up for After) within [0, maximum offset] and leaves the other axis, so
\* that the offsets of one hold are strictly monotone in a finite range and
\* its scrolls finitely many.
C39_HeldScrollMovesTowardSide ==
    \A in \in NextInputs : HeldScrollAdvances(in)

\* The same for the holds in which a whole step of the axis fits in the
\* viewport, or which follow a double click
HeldScrollMovesTowardSideIfStepFits ==
    \A in \in NextInputs :
        With(AreaHandled(in), LAMBDA result :
            (result.result.tag = "TrackHeld"
                /\ (StepFits(in) \/ result.result.kind = "Double")) =>
            HeldScrollAdvances(in))

\* A held track whose scroll leaves the offset where it is: less than a
\* step fits, and the timer is started again
HeldScrollStands ==
    \E in \in NextInputs :
        With(AreaHandled(in), LAMBDA result :
        With(ScrollHandled(in), LAMBDA handled :
            /\ result.tag = "Vertical"
            /\ result.result.tag = "TrackHeld"
            /\ result.result.kind = "Single"
            /\ handled.offset = Some(ScrollOffset_new(content.viewport.x, content.viewport.y))
            /\ result.result.offset > content.viewport.y
            /\ InputResult(in).out = <<>>))

====
